---- MODULE Spec2Model ----
(***************************************************************************)
(* run_training of chemprop/train/run_training.py as a state machine: the  *)
(* split checks, the sequential ensemble loop, the epoch loop with its     *)
(* checkpoint decision, the reload of the checkpoint, the test evaluation  *)
(* of each member, the ensemble evaluation and the scores file.            *)
(***************************************************************************)
EXTENDS Integers, Sequences, FiniteSets, TLC

VARIABLES
    args,             \* TrainArgs: the fields run_training reads
    val_len,          \* len(val_data)
    test_targets,     \* test_data.targets(), one task, one value per molecule
    disk_at_start,    \* the checkpoint files that exist when the run starts
    disk,             \* path -> checkpoint file (or NoFile)
    pc,               \* position of run_training
    error,            \* the exception that ended the run, "none" otherwise
    model_idx,        \* loop variable of the ensemble loop
    epoch,            \* loop variable of the epoch loop
    model,            \* weights of the model object of the current member
    best_score,       \* best aggregate seen so far
    best_epoch,       \* epoch of best_score
    mean_val_score,   \* local variable mean_val_score (Unbound before line 347)
    val_scores,       \* result of evaluate() of the current epoch: metric -> aggregate
    torch_rng,        \* state of the global torch generator
    loader_rng,       \* state of the generator of train_data_loader
    empty_test_set,   \* local variable empty_test_set
    sum_test_preds,   \* local variable sum_test_preds
    test_preds,       \* local variable test_preds
    test_scores,      \* local variable test_scores
    avg_test_preds,   \* local variable avg_test_preds
    ensemble_scores,  \* local variable ensemble_scores
    scores_file,      \* the writes of test_scores.json, oldest first
    returned,         \* the value run_training returned
    last_io,          \* the last checkpoint file operation: who, what, where
    hist,             \* history: the primary aggregate of each epoch of the current member
    init_model,       \* history: the weights the current member started from
    rng_at_init,      \* history: torch_rng and loader_rng when the current member started
    member_preds,     \* history: the test predictions of each member
    closed,           \* history: the members whose writer was closed
    data_args,        \* TrainArgs: the fields that choose the partitions and the scalers
    scalers,          \* local variables scaler, features_scaler, atom_descriptor_scaler, bond_feature_scaler
    fits,             \* history: the scalers fitted, oldest first
    applied,          \* history: which scaler was used on which dataset, and where
    neptune_installed,\* the package neptune can be imported
    imported,         \* the import of the module run_training: "no", "yes", "ImportError"
    descriptastorus_installed,   \* the package descriptastorus can be imported
    FEATURES_GENERATOR_REGISTRY, \* the dict of features_generators.py, in insertion order
    features_imported,           \* the module features_generators has been imported
    result,           \* what the last call of a function of features_generators.py did
    latest,           \* history: name -> the generator last registered under it
    first_registered, \* history: the names in the order of their first registration
    call,             \* a call of a Morgan generator: the function and its arguments
    features,         \* what the call returned
    build_args,       \* the arguments of a call of build_model
    built_model,      \* the modules of the model build_model returned
    run,              \* the telemetry run: whether its entries are followed, and for
                      \* each key under test/ the value written
    other_run,        \* a second run whose validation scores agree on the primary metric
    first_call        \* history: the first call of a Morgan generator, what it returned,
                      \* the registry then, and the registry when the call was repeated

\* The variables of a call of run_training.
run_vars == <<args, val_len, test_targets, disk_at_start, disk, pc, error, model_idx,
          epoch, model, best_score, best_epoch, mean_val_score, val_scores,
          torch_rng, loader_rng, empty_test_set, sum_test_preds, test_preds,
          test_scores, avg_test_preds, ensemble_scores, scores_file, returned, last_io,
          hist, init_model, rng_at_init, member_preds, closed, other_run, run>>

\* What a call of run_training leaves alone.
outside == <<neptune_installed, imported, data_args, descriptastorus_installed,
             FEATURES_GENERATOR_REGISTRY, features_imported, result, latest,
             first_registered, call, features, first_call, build_args, built_model>>

\* The variables of a call of build_model.
model_vars == <<build_args, built_model>>

\* The variables of a call of a Morgan generator.
fingerprint_vars == <<call, features, first_call>>

\* The variables of the module features_generators.
features_vars == <<descriptastorus_installed, FEATURES_GENERATOR_REGISTRY,
                   features_imported, result, latest, first_registered>>

\* The scalers and their history.
scaling == <<scalers, fits>>

vars == <<run_vars, outside, scaling, applied>>

----------------------------------------------------------------------------
(* Bounds of the model. *)

MaxEnsemble == 2     \* args.ensemble_size ranges over 1..MaxEnsemble
MaxEpochs == 2       \* args.epochs ranges over 0..MaxEpochs
MaxPasses == 4       \* args.ensemble_size * args.epochs, the passes of train(), is at most MaxPasses
MaxTest == 1         \* len(test_data) ranges over 0..MaxTest
MaxVal == 1          \* len(val_data) is 0 or MaxVal
MaxScore == 2        \* finite validation aggregates range over 1..MaxScore

----------------------------------------------------------------------------
(* Floating point values: finite numbers, the two infinities, not-a-number. *)

Num(n) == [k |-> "num", v |-> n]
NaN == [k |-> "nan", v |-> 0]
PosInf == [k |-> "inf", v |-> 1]
NegInf == [k |-> "inf", v |-> -1]
Unbound == [k |-> "unbound", v |-> 0]

IsNaN(a) == a.k = "nan"

\* Python's a < b on floats: false as soon as one side is not-a-number.
FloatLt(a, b) ==
    /\ ~IsNaN(a)
    /\ ~IsNaN(b)
    /\ \/ a.k = "num" /\ b.k = "num" /\ a.v < b.v
       \/ a = NegInf /\ b # NegInf
       \/ b = PosInf /\ a # PosInf

FloatGt(a, b) == FloatLt(b, a)

----------------------------------------------------------------------------
(* Python dicts keep insertion order: a dict is a sequence of <<key, value>>. *)

EmptyDict == <<>>
DictKeys(d) == {d[i][1] : i \in 1..Len(d)}
DictGet(d, key) == d[CHOOSE i \in 1..Len(d) : d[i][1] = key][2]

----------------------------------------------------------------------------
(* The arguments and the data. *)

\* The metric names of the model, and Python's order on them as strings.
MetricNames == {"accuracy", "mse"}
MetricRank(metric) == IF metric = "accuracy" THEN 1 ELSE 2

\* args.metrics: the primary metric first, then the extra metrics.
MetricLists == {<<"accuracy">>, <<"accuracy", "mse">>, <<"mse", "accuracy">>}

\* args.metric, the primary metric.
PrimaryMetric(a) == a.metrics[1]

\* args.minimize_score: a property of the primary metric, true for the error metrics.
MinimizeScore(a) == PrimaryMetric(a) = "mse"

\* args.task_names: one task.
task_names == <<"task_0">>

\* The aggregates evaluate() reports for one metric on the validation set:
\* finite ones, not-a-number, and the infinity best_score starts from.
ValScoreVals(a) ==
    {Num(n) : n \in 1..MaxScore} \cup {NaN, IF MinimizeScore(a) THEN PosInf ELSE NegInf}

\* The raw predictions of a model for one molecule.
PredVals == 0..1

ArgsSpace ==
    {a \in [ensemble_size : 1..MaxEnsemble,
            epochs : 0..MaxEpochs,
            metrics : MetricLists,
            neptune_logging : BOOLEAN,
            checkpoint_paths : BOOLEAN] :    \* TRUE: args.checkpoint_paths is not None
        a.ensemble_size * a.epochs <= MaxPasses}

----------------------------------------------------------------------------
(* The partitions of the data and the scalers, lines 84-217. *)

\* The datasets of a run: the argument data, the files of
\* args.separate_val_path and args.separate_test_path, the parts split_data returns.
Datasets == {"data", "separate_val", "separate_test", "split_train", "split_val", "split_test"}

DatasetTypes == {"regression", "classification", "spectra"}

\* atom_descriptors: args.atom_descriptor_scaling and args.atom_descriptors is not None;
\* bond_features: args.bond_feature_scaling and args.bond_features_size > 0.
DataArgsSpace ==
    [separate_val_path : BOOLEAN,
     separate_test_path : BOOLEAN,
     features_scaling : BOOLEAN,
     atom_descriptors : BOOLEAN,
     bond_features : BOOLEAN,
     dataset_type : DatasetTypes]

\* Lines 84-133: train_data, val_data and test_data.
Partitions(a) ==
    [train |-> IF a.separate_val_path /\ a.separate_test_path THEN "data" ELSE "split_train",
     val   |-> IF a.separate_val_path THEN "separate_val" ELSE "split_val",
     test  |-> IF a.separate_test_path THEN "separate_test" ELSE "split_test"]

\* The validation partition where the training partition is meant.
FitOnValidation(parts) == parts.val

\* The dataset normalize_features and normalize_targets are called on without
\* a scaler: train_data.
FitPartition(parts) == parts.train

\* A scaler is the dataset and the columns it was fitted on; None otherwise.
NoScaler == [fit_on |-> "none", what |-> "none"]
StandardScaler(dataset, what) == [fit_on |-> dataset, what |-> what]

\* dataset.normalize_features(...) without a scaler, dataset.normalize_targets():
\* fits a scaler on the dataset and returns it.
normalize_features(dataset, what) == StandardScaler(dataset, what)
normalize_targets(dataset) == StandardScaler(dataset, "targets")

\* Lines 157-176: the three scalers of the inputs.
FeatureScalers(a) ==
    LET on == FitPartition(Partitions(a))
    IN  [features_scaler |->
            IF a.features_scaling THEN normalize_features(on, "features") ELSE NoScaler,
         atom_descriptor_scaler |->
            IF a.atom_descriptors THEN normalize_features(on, "atom_descriptors") ELSE NoScaler,
         bond_feature_scaler |->
            IF a.bond_features THEN normalize_features(on, "bond_features") ELSE NoScaler]

\* Lines 197-217: the scaler of the targets.
TargetScaler(a) ==
    IF a.dataset_type = "regression"
    THEN normalize_targets(FitPartition(Partitions(a)))
    ELSE NoScaler

NoScalers ==
    [scaler |-> NoScaler, features_scaler |-> NoScaler,
     atom_descriptor_scaler |-> NoScaler, bond_feature_scaler |-> NoScaler]

\* The scalers of the inputs in the order of their fits.
InputScalerNames == <<"features_scaler", "atom_descriptor_scaler", "bond_feature_scaler">>

\* The subsequence of the fitted scalers of a sequence of scalers.
Fitted(seq) == SelectSeq(seq, LAMBDA sc : sc # NoScaler)

\* val_data.normalize_features(sc, ...) and test_data.normalize_features(sc, ...),
\* lines 159-160, 166-167, 173-174: the scaler fitted on train_data has
\* transformed train_data, and is used on the two other partitions.
NormalizeWith(a, sc) ==
    {[to |-> d, scaler |-> sc, at |-> "normalize_features"] :
        d \in {Partitions(a).train, Partitions(a).val, Partitions(a).test}}

----------------------------------------------------------------------------
(* Checkpoint files. *)

\* One directory for all the members.
SharedDir(idx) == [kind |-> "member", i |-> 0]

\* os.path.join(args.save_dir, f'model_{model_idx}') with MODEL_FILE_NAME in it.
SaveDir(idx) == [kind |-> "member", i |-> idx]
\* A checkpoint file outside the directories of the members.
ExtPath == [kind |-> "ext", i |-> 0]
Paths == {SaveDir(i) : i \in 0..(MaxEnsemble - 1)} \cup {ExtPath}

\* Weights: the generator state they were drawn from (or the file they were
\* in before the run) and the training passes applied to them.
NoWeights == [seed |-> "none", pos |-> 0, ep |-> 0]
OldWeights(path) == [seed |-> path.kind, pos |-> path.i, ep |-> 0]

\* The scalers and the arguments in a file older than the run.
OldScalers ==
    [scaler |-> StandardScaler("earlier run", "targets"),
     features_scaler |-> StandardScaler("earlier run", "features"),
     atom_descriptor_scaler |-> NoScaler, bond_feature_scaler |-> NoScaler]
NoArgs == [run |-> [of |-> "none"], data |-> [of |-> "none"]]
OldArgs == [run |-> [of |-> "earlier run"], data |-> [of |-> "earlier run"]]

\* The training arguments as one object.
TrainArgs(a, da) == [run |-> a, data |-> da]

\* A file holds the weights, the four scalers and the arguments.
\* by: the member that wrote the file; -1 for a file older than the run.
NoFile == [state |-> NoWeights, by |-> -2, scalers |-> NoScalers, args |-> NoArgs]
OldFile(path) ==
    [state |-> OldWeights(path), by |-> -1, scalers |-> OldScalers, args |-> OldArgs]

\* A bundle that leaves the scalers out.
BundleWithoutScalers(weights, sc, a) ==
    [state |-> weights, scalers |-> NoScalers, args |-> a]

\* save_checkpoint(path, model, scaler, features_scaler, atom_descriptor_scaler,
\* bond_feature_scaler, args), lines 296-297 and 369-370: what the call is given.
Bundle(weights, sc, a) == [state |-> weights, scalers |-> sc, args |-> a]

\* A save that skips a model no epoch has trained.
save_trained_only(d, path, idx, bundle) ==
    IF bundle.state.ep = 0 THEN d
    ELSE [d EXCEPT ![path] = [state |-> bundle.state, by |-> idx,
                              scalers |-> bundle.scalers, args |-> bundle.args]]

save_checkpoint(d, path, idx, bundle) ==
    [d EXCEPT ![path] = [state |-> bundle.state, by |-> idx,
                         scalers |-> bundle.scalers, args |-> bundle.args]]

load_checkpoint(d, path) == d[path].state

\* MoleculeModel(args): parameters drawn from the global torch generator.
MoleculeModel(rng) == [seed |-> rng.seed, pos |-> rng.pos, ep |-> 0]

\* One pass of train() over the training batches.
train(weights) == [weights EXCEPT !.ep = @ + 1]

\* A generator after one more draw from it.
Draw(rng) == [rng EXCEPT !.pos = @ + 1]

\* The generator seeded again for each member.
ReseededGenerator(rng, idx) == [rng EXCEPT !.pos = 0]

\* Lines 261-276: the ensemble loop seeds nothing; member idx draws from the
\* generators in the state the members before it left them in.
GeneratorOfMember(rng, idx) == rng
NoRng == [seed |-> "none", pos |-> 0]

----------------------------------------------------------------------------
(* Predictions and their evaluation. *)

\* np.zeros((len(test_smiles), args.num_tasks)), one task.
zeros(n) == [i \in 1..n |-> 0]

\* The sum with = in the place of +=.
Overwrite(sum, preds) == preds

\* sum_test_preds += np.array(test_preds)
Accumulate(sum, preds) == [i \in 1..Len(sum) |-> sum[i] + preds[i]]

\* A vector of quotients num[i] / den; the predictions of one model have den = 1.
Exact(preds) == [num |-> preds, den |-> 1]

\* (sum_test_preds / args.ensemble_size).tolist()
Average(sum, a) == [num |-> sum, den |-> a.ensemble_size]

\* The molecules whose prediction, cut at one half, is their target.
Hits(preds, targets) ==
    {i \in 1..Len(targets) : (2 * preds.num[i] > preds.den) = (targets[i] = 1)}

RECURSIVE SquaredError(_, _, _)
\* The sum over the first n molecules of (num[i] - den * target[i])^2,
\* the squared error in units of 1 / den^2.
SquaredError(preds, targets, n) ==
    IF n = 0 THEN 0
    ELSE LET d == preds.num[n] - preds.den * targets[n]
         IN  d * d + SquaredError(preds, targets, n - 1)

MetricScore(metric, preds, targets) ==
    IF Len(targets) = 0 THEN NaN
    ELSE IF metric = "accuracy" THEN Num(Cardinality(Hits(preds, targets)))
    ELSE Num(SquaredError(preds, targets, Len(targets)))

\* evaluate_predictions: for each metric, in the order of args.metrics, the
\* list of the scores of the tasks.
evaluate_predictions(preds, targets, a) ==
    [i \in 1..Len(a.metrics) |->
        <<a.metrics[i],
          [t \in 1..Len(task_names) |-> MetricScore(a.metrics[i], preds, targets)]>>]

\* {metric: [np.nan for task in args.task_names] for metric in args.metrics}
NanScores(a) ==
    [i \in 1..Len(a.metrics) |->
        <<a.metrics[i], [t \in 1..Len(task_names) |-> NaN]>>]

\* multitask_mean of the scores of the tasks; with one task, its score.
multitask_mean(scores) == scores[1]

\* The results evaluate() can return on the validation set.
ValScoreDicts(a) ==
    {[i \in 1..Len(a.metrics) |-> <<a.metrics[i], <<f[i]>> >>] :
        f \in [1..Len(a.metrics) -> ValScoreVals(a)]}

----------------------------------------------------------------------------
(* The checkpoint decision. *)

\* best_score = float('inf') if args.minimize_score else -float('inf')
InitialBest(a) == IF MinimizeScore(a) THEN PosInf ELSE NegInf

\* The decision with <= and >= in the place of < and >.
ImprovedOrEqual(a, score, best) ==
    \/ MinimizeScore(a) /\ (FloatLt(score, best) \/ (score = best /\ ~IsNaN(score)))
    \/ ~MinimizeScore(a) /\ (FloatGt(score, best) \/ (score = best /\ ~IsNaN(score)))

\* The decision without the direction: higher is always better.
ImprovedWhenHigher(a, score, best) == FloatGt(score, best)

\* args.minimize_score and mean_val_score < best_score or
\* not args.minimize_score and mean_val_score > best_score
Improved(a, score, best) ==
    \/ MinimizeScore(a) /\ FloatLt(score, best)
    \/ ~MinimizeScore(a) /\ FloatGt(score, best)

\* The aggregate the logging loop of lines 345-362 computed last.
LastLoggedScore(a, scores) == multitask_mean(scores[Len(scores)][2])

\* multitask_mean(val_scores[args.metric], metric=args.metric), line 365.
DecisionScore(a, scores) == multitask_mean(DictGet(scores, PrimaryMetric(a)))

\* The results of evaluate() that agree with scores on the primary metric.
AgreeOnPrimary(a, scores) ==
    {others \in ValScoreDicts(a) :
        DictGet(others, PrimaryMetric(a)) = DictGet(scores, PrimaryMetric(a))}

\* The second run: whether it is followed, the result of its evaluate(), its
\* best_score and best_epoch, whether its last decision wrote the checkpoint,
\* and whether its last result differed from that of the first run.
NoOtherRun ==
    [on |-> FALSE, val_scores |-> EmptyDict, best_score |-> [k |-> "unbound", v |-> 0],
     best_epoch |-> 0, saved |-> FALSE, differed |-> FALSE]

\* The split check left out.
NeverEmpty(n) == FALSE

\* len(val_data) == 0
ValidationEmpty(n) == n = 0

\* len(test_data) == 0
TestEmpty(targets) == Len(targets) = 0

----------------------------------------------------------------------------
(* The scores file. *)

\* The keys of a dict in Python's order on strings.
SortedKeys(d) ==
    CHOOSE s \in [1..Len(d) -> DictKeys(d)] :
        /\ \A i, j \in 1..Len(d) : i < j => MetricRank(s[i]) < MetricRank(s[j])

\* The dump without sort_keys.
json_dump_unsorted(d) == d

\* json.dump(ensemble_scores, f, indent=4, sort_keys=True): the members of the
\* object in the order in which the file lists them.
json_dump(d) == [i \in 1..Len(d) |-> <<SortedKeys(d)[i], DictGet(d, SortedKeys(d)[i])>>]

----------------------------------------------------------------------------
(* features_generators.py: the registry of features generators. *)

\* A dict assignment that always adds an item.
DictAppend(d, key, value) == Append(d, <<key, value>>)

\* A dict assignment that moves the key to the end.
DictSetMoveToEnd(d, key, value) ==
    Append(SelectSeq(d, LAMBDA item : item[1] # key), <<key, value>>)

\* d[key] = value: the item of a key the dict has keeps its place, a new key
\* is added at the end.
DictSet(d, key, value) ==
    IF key \in DictKeys(d)
    THEN [i \in 1..Len(d) |-> IF d[i][1] = key THEN <<key, value>> ELSE d[i]]
    ELSE Append(d, <<key, value>>)

\* list(d.keys()): a new list of the keys, in the order of the dict.
KeyList(d) == [i \in 1..Len(d) |-> d[i][1]]

\* A function object: the name of its def, and whether it is the mock defined
\* when descriptastorus cannot be imported.
Generator(id) == [id |-> id, mock |-> FALSE]
MockGenerator(id) == [id |-> id, mock |-> TRUE]
NoGenerator == [id |-> "none", mock |-> FALSE]

\* The functions a caller registers.
UserGenerators == {Generator("f"), Generator("g")}

\* The names of the model: the four of the module, two a caller registers,
\* one nobody registers.
Names == {"morgan", "morgan_count", "rdkit_2d", "rdkit_2d_normalized",
          "custom", "other", "missing"}
RegisterNames == {"morgan", "custom", "other"}

\* A decorator that stores a wrapper of the function.
decorator_wrapping(d, name, f) == DictSet(d, name, [id |-> "wrapper", mock |-> f.mock])

\* Lines 22-24: FEATURES_GENERATOR_REGISTRY[features_generator_name] = features_generator.
decorator(d, name, f) == DictSet(d, name, f)

\* Exceptions: their type, the name their message gives, the package it mentions.
NoError == [type |-> "none", names |-> "none", mentions |-> "none"]

\* A message that does not say which generator is missing.
NotFoundUnnamed(name) ==
    [type |-> "ValueError", names |-> "none", mentions |-> "descriptastorus"]

\* Lines 37-38: ValueError(f'Features generator "{features_generator_name}" could
\* not be found. If this generator relies on rdkit features, you may need to
\* install descriptastorus.')
NotFound(name) == [type |-> "ValueError", names |-> name, mentions |-> "descriptastorus"]

\* Lines 176-177 and 182-183: ImportError('Failed to import descriptastorus.
\* Please install descriptastorus (...) to use RDKit 2D ... features.')
DependencyMissing ==
    [type |-> "ImportError", names |-> "descriptastorus", mentions |-> "descriptastorus"]

\* Lines 36-40.
get_features_generator(d, name) ==
    IF name \notin DictKeys(d)
    THEN [generator |-> NoGenerator, error |-> NotFound(name)]
    ELSE [generator |-> DictGet(d, name), error |-> NoError]

\* A list object: its items, and whether it is storage the registry keeps.
\* The storage of the keys of the registry handed out as it is.
keys_storage(items) == [items |-> items, shared |-> TRUE]

\* list(...), line 45: a new list object with the items.
NewList(items) == [items |-> items, shared |-> FALSE]

\* Line 45.
get_available_features_generators(d) == NewList(KeyList(d))

\* A module that defines the two rdkit generators only with descriptastorus.
OnlyWhenInstalled(installed) ==
    <<<<"morgan", Generator("morgan_binary_features_generator")>>,
      <<"morgan_count", Generator("morgan_counts_features_generator")>>>> \o
    (IF installed
     THEN <<<<"rdkit_2d", Generator("rdkit_2d_features_generator")>>,
            <<"rdkit_2d_normalized", Generator("rdkit_2d_normalized_features_generator")>>>>
     ELSE <<>>)

\* The decorated definitions of the module in the order they are executed:
\* lines 52 and 85, and lines 118-183, where the try block registers the two
\* rdkit generators after the import of descriptastorus and the except block
\* registers two mocks.
ModuleDefinitions(installed) ==
    <<<<"morgan", Generator("morgan_binary_features_generator")>>,
      <<"morgan_count", Generator("morgan_counts_features_generator")>>>> \o
    (IF installed
     THEN <<<<"rdkit_2d", Generator("rdkit_2d_features_generator")>>,
            <<"rdkit_2d_normalized", Generator("rdkit_2d_normalized_features_generator")>>>>
     ELSE <<<<"rdkit_2d", MockGenerator("rdkit_2d_features_generator")>>,
            <<"rdkit_2d_normalized", MockGenerator("rdkit_2d_normalized_features_generator")>>>>)

RECURSIVE RegisterAll(_, _, _)
\* The registry after the first n definitions were decorated.
RegisterAll(d, defs, n) ==
    IF n = 0 THEN d
    ELSE decorator(RegisterAll(d, defs, n - 1), defs[n][1], defs[n][2])

\* What a call left behind: the operation, its argument, the function or the
\* list it returned, the exception it raised.
Result(op, name, generator, names, err) ==
    [op |-> op, name |-> name, generator |-> generator, names |-> names, error |-> err,
     shared |-> FALSE]
NoResult == Result("none", "none", NoGenerator, <<>>, NoError)

\* The names of a sequence of names.
NameSet(seq) == {seq[i] : i \in 1..Len(seq)}

\* The module features_generators is not imported yet.
FeaturesIdle ==
    /\ FEATURES_GENERATOR_REGISTRY = EmptyDict
    /\ features_imported = FALSE
    /\ result = NoResult
    /\ latest = [n \in Names |-> NoGenerator]
    /\ first_registered = <<>>

\* Lines 1-183: the import of the module.
ImportFeatures ==
    LET defs == ModuleDefinitions(descriptastorus_installed)
    IN  /\ ~features_imported
        /\ features_imported' = TRUE
        /\ FEATURES_GENERATOR_REGISTRY' = RegisterAll(EmptyDict, defs, Len(defs))
        /\ result' = Result("import", "none", NoGenerator, <<>>, NoError)
        /\ latest' = [n \in Names |->
                         IF \E i \in 1..Len(defs) : defs[i][1] = n
                         THEN defs[CHOOSE i \in 1..Len(defs) : defs[i][1] = n][2]
                         ELSE NoGenerator]
        /\ first_registered' = [i \in 1..Len(defs) |-> defs[i][1]]
        /\ UNCHANGED <<run_vars, model_vars, neptune_installed, imported, data_args, scaling, applied,
                       fingerprint_vars, descriptastorus_installed>>

\* register_features_generator(name)(f), lines 15-26: the decorator stores f
\* and returns it.
Register(name, f) ==
    /\ features_imported
    /\ FEATURES_GENERATOR_REGISTRY' = decorator(FEATURES_GENERATOR_REGISTRY, name, f)
    /\ result' = Result("register", name, f, <<>>, NoError)
    /\ latest' = [latest EXCEPT ![name] = f]
    /\ first_registered' = IF name \in NameSet(first_registered)
                           THEN first_registered
                           ELSE Append(first_registered, name)
    /\ UNCHANGED <<run_vars, model_vars, neptune_installed, imported, data_args, scaling, applied,
                   fingerprint_vars, descriptastorus_installed, features_imported>>

\* get_features_generator(name), lines 29-40.
Get(name) ==
    LET got == get_features_generator(FEATURES_GENERATOR_REGISTRY, name)
    IN  /\ features_imported
        /\ result' = Result("get", name, got.generator, <<>>, got.error)
        /\ UNCHANGED <<run_vars, model_vars, neptune_installed, imported, data_args, scaling, applied,
                       fingerprint_vars, descriptastorus_installed, FEATURES_GENERATOR_REGISTRY,
                       features_imported, latest, first_registered>>

\* get_available_features_generators(), lines 43-45.
ListAvailable ==
    /\ features_imported
    /\ LET names == get_available_features_generators(FEATURES_GENERATOR_REGISTRY)
       IN  result' = [Result("list", "none", NoGenerator, names.items, NoError)
                         EXCEPT !.shared = names.shared]
    /\ UNCHANGED <<run_vars, model_vars, neptune_installed, imported, data_args, scaling, applied,
                   fingerprint_vars, descriptastorus_installed, FEATURES_GENERATOR_REGISTRY,
                   features_imported, latest, first_registered>>

\* A call of the generator the last lookup returned: a mock raises
\* (lines 174-177 and 180-183), the others compute features.
Invoke ==
    /\ result.op = "get"
    /\ result.error = NoError
    /\ result' = Result("call", result.name, result.generator, <<>>,
                        IF result.generator.mock THEN DependencyMissing ELSE NoError)
    /\ UNCHANGED <<run_vars, model_vars, neptune_installed, imported, data_args, scaling, applied,
                   fingerprint_vars, descriptastorus_installed, FEATURES_GENERATOR_REGISTRY,
                   features_imported, latest, first_registered>>

\* The caller removes the first item of the list the last call of
\* get_available_features_generators returned, names.pop(0): the registry
\* changes only if the list is its own storage.
MutateList ==
    /\ result.op = "list"
    /\ result.names # <<>>
    /\ result' = [result EXCEPT !.op = "mutated", !.names = Tail(result.names)]
    /\ FEATURES_GENERATOR_REGISTRY' = IF result.shared
                                      THEN Tail(FEATURES_GENERATOR_REGISTRY)
                                      ELSE FEATURES_GENERATOR_REGISTRY
    /\ UNCHANGED <<run_vars, model_vars, neptune_installed, imported, data_args, scaling, applied,
                   fingerprint_vars, descriptastorus_installed, features_imported,
                   latest, first_registered>>

----------------------------------------------------------------------------
(* features_generators.py: the Morgan fingerprint generators, lines 48-115. *)

MaxGroups == 2       \* a grouped input has at most MaxGroups datapoints
MaxGroupSize == 2    \* a datapoint has at most MaxGroupSize molecules
MORGAN_RADIUS == 2

\* A molecule is a SMILES string or an RDKit molecule.
Smiles(text) == [type |-> "str", smiles |-> text]
Mol(text) == [type |-> "Mol", smiles |-> text]
Molecules == {Smiles("C"), Mol("C"), Mol("N")}

\* Chem.MolFromSmiles(molecule) if type(molecule) == str else molecule
AsMol(molecule) == IF molecule.type = "str" THEN Mol(molecule.smiles) ELSE molecule

\* A number that stands for the structure of an RDKit molecule.
Structure(mol) == IF mol.smiles = "C" THEN 1 ELSE 2

\* AllChem.GetMorganFingerprintAsBitVect(mol, radius, nBits=num_bits) and
\* AllChem.GetHashedMorganFingerprint(mol, radius, nBits=num_bits), copied to
\* a numpy array by DataStructs.ConvertToNumpyArray: num_bits values that the
\* molecule and the radius determine.
GetMorganFingerprintAsBitVect(mol, radius, num_bits) ==
    [i \in 1..num_bits |-> (Structure(mol) * radius + i) % 2]
GetHashedMorganFingerprint(mol, radius, num_bits) ==
    [i \in 1..num_bits |-> (Structure(mol) + radius * i) % 3]

\* np.zeros((1,)), lines 71, 79, 104, 112.
np_zeros == <<0>>

\* A copy that keeps the shape of the array it writes to.
ConvertKeepingShape(features_vec, f) == [i \in 1..Len(f) |-> features_vec[i]]

\* DataStructs.ConvertToNumpyArray(features_vec, f), lines 72, 80, 105, 113:
\* the array is resized to the length of the vector and takes its values.
ConvertToNumpyArray(features_vec, f) ==
    [i \in 1..Len(features_vec) |-> features_vec[i]]

\* A generator whose vector depends on what the registry holds under its name.
FeaturesVecOfRegistry(generator, molecule, radius, num_bits) ==
    IF /\ generator \in DictKeys(FEATURES_GENERATOR_REGISTRY)
       /\ DictGet(FEATURES_GENERATOR_REGISTRY, generator) \in UserGenerators
    THEN [i \in 1..num_bits |-> 0]
    ELSE ConvertToNumpyArray(
             IF generator = "morgan"
             THEN GetMorganFingerprintAsBitVect(AsMol(molecule), radius, num_bits)
             ELSE GetHashedMorganFingerprint(AsMol(molecule), radius, num_bits),
             np_zeros)

\* Lines 69-72, 77-80, 102-105, 110-113: the vector of one molecule.
FeaturesVec(generator, molecule, radius, num_bits) ==
    ConvertToNumpyArray(
        IF generator = "morgan"
        THEN GetMorganFingerprintAsBitVect(AsMol(molecule), radius, num_bits)
        ELSE GetHashedMorganFingerprint(AsMol(molecule), radius, num_bits),
        np_zeros)

\* The vectors of the molecules of one datapoint, lines 67-73 and 100-106.
EntryFeatures(generator, datapoint, radius, num_bits) ==
    [m \in 1..Len(datapoint) |-> FeaturesVec(generator, datapoint[m], radius, num_bits)]

\* A list that takes the vectors of a datapoint at its front.
ExtendAtFront(list, entry_features) == entry_features \o list

\* features.extend(entry_features), lines 74 and 107.
Extend(list, entry_features) == list \o entry_features

RECURSIVE GroupedFeatures(_, _, _, _, _)
\* The list features after the first n datapoints, lines 65-74 and 98-107.
GroupedFeatures(generator, groups, radius, num_bits, n) ==
    IF n = 0 THEN <<>>
    ELSE Extend(GroupedFeatures(generator, groups, radius, num_bits, n - 1),
                EntryFeatures(generator, groups[n], radius, num_bits))

\* The input of a call: a list of datapoints, or one molecule.
Grouped(groups) == [list |-> TRUE, groups |-> groups, molecule |-> Smiles("none")]
Single(molecule) == [list |-> FALSE, groups |-> <<>>, molecule |-> molecule]

\* The returned array: its rows for a list, one row for a molecule.
NoFeatures == [returned |-> FALSE, list |-> FALSE, rows |-> <<>>]
Array(list, rows) == [returned |-> TRUE, list |-> list, rows |-> rows]

\* morgan_binary_features_generator and morgan_counts_features_generator,
\* lines 64-82 and 97-115.
morgan_features_generator(generator, mol_data, radius, num_bits) ==
    IF mol_data.list
    THEN Array(TRUE, GroupedFeatures(generator, mol_data.groups, radius, num_bits,
                                     Len(mol_data.groups)))
    ELSE Array(FALSE, <<FeaturesVec(generator, mol_data.molecule, radius, num_bits)>>)

\* The inputs of the calls.
Datapoints == UNION {[1..n -> Molecules] : n \in 0..MaxGroupSize}
MolData ==
    {Grouped(groups) : groups \in UNION {[1..n -> Datapoints] : n \in 0..MaxGroups}}
        \cup {Single(molecule) : molecule \in Molecules}
Calls ==
    [generator : {"morgan", "morgan_count"}, mol_data : MolData,
     radius : {1, MORGAN_RADIUS}, num_bits : {1, 3}]

\* The calls with one molecule.
SingleCalls == {c \in Calls : ~c.mol_data.list}

\* No Morgan generator is called.
NoCall ==
    [generator |-> "none", mol_data |-> Single(Smiles("none")),
     radius |-> MORGAN_RADIUS, num_bits |-> 1]
NoFirstCall ==
    [call |-> NoCall, features |-> NoFeatures, registry |-> EmptyDict,
     repeated |-> FALSE, registry_repeated |-> EmptyDict]
FingerprintIdle ==
    /\ call = NoCall
    /\ features = NoFeatures
    /\ first_call = NoFirstCall

\* morgan_binary_features_generator(mol_data, radius, num_bits)
CallMorganBinary ==
    /\ call.generator = "morgan"
    /\ ~features.returned
    /\ features' = morgan_features_generator("morgan", call.mol_data, call.radius,
                                             call.num_bits)
    /\ UNCHANGED <<run_vars, model_vars, neptune_installed, imported, data_args, scaling, applied,
                   features_vars, call, first_call>>

\* morgan_counts_features_generator(mol_data, radius, num_bits)
CallMorganCounts ==
    /\ call.generator = "morgan_count"
    /\ ~features.returned
    /\ features' = morgan_features_generator("morgan_count", call.mol_data, call.radius,
                                             call.num_bits)
    /\ UNCHANGED <<run_vars, model_vars, neptune_installed, imported, data_args, scaling, applied,
                   features_vars, call, first_call>>

\* A call of one of the two generators with one molecule, after the import of
\* the module: lines 52-82 and 85-115.
CallGenerator(c) ==
    LET returned_array == morgan_features_generator(c.generator, c.mol_data, c.radius,
                                                    c.num_bits)
    IN  /\ features_imported
        /\ call' = c
        /\ features' = returned_array
        /\ first_call' =
               IF first_call.call = NoCall
               THEN [NoFirstCall EXCEPT !.call = c, !.features = returned_array,
                                        !.registry = FEATURES_GENERATOR_REGISTRY]
               ELSE IF first_call.call = c
               THEN [first_call EXCEPT !.repeated = TRUE,
                                       !.registry_repeated = FEATURES_GENERATOR_REGISTRY]
               ELSE first_call
        /\ UNCHANGED <<run_vars, model_vars, neptune_installed, imported, data_args, scaling, applied,
                       features_vars>>

----------------------------------------------------------------------------
(* model.py: build_model, lines 9-42. *)

MaxTasks == 2        \* args.num_tasks ranges over 1..MaxTasks
MaxBins == 3         \* args.num_bins ranges over 1..MaxBins
MaxHidden == 2       \* args.hidden_size ranges over 1..MaxHidden

\* The dataset types of model.py.
ModelDatasetTypes == {"classification", "regression", "regression_with_binning"}

BuildArgsSpace ==
    [dataset_type : ModelDatasetTypes, jtnn : BOOLEAN, num_tasks : 1..MaxTasks,
     num_bins : 1..MaxBins, hidden_size : 1..MaxHidden]

\* The modules of the model and how lines 36-40 initialize their parameters:
\* the vectors with 0, the matrices with xavier_normal_.
Encoder(type) == [layer |-> type, in_features |-> 0, out_features |-> 0,
                  init |-> "constant 0, xavier_normal"]
Linear(in_features, out_features) ==
    [layer |-> "Linear", in_features |-> in_features, out_features |-> out_features,
     init |-> "constant 0, xavier_normal"]
ReLU == [layer |-> "ReLU", in_features |-> 0, out_features |-> 0, init |-> "none"]
Sigmoid == [layer |-> "Sigmoid", in_features |-> 0, out_features |-> 0, init |-> "none"]

\* A build_model that ends with a sigmoid for every dataset type but regression.
build_model_sigmoid_unless_regression(a) ==
    LET output_size == IF a.dataset_type = "regression_with_binning"
                       THEN a.num_bins * a.num_tasks
                       ELSE a.num_tasks
        encoder == IF a.jtnn THEN Encoder("JTNN") ELSE Encoder("MPN")
        modules == <<encoder,
                     Linear(a.hidden_size * (1 + (IF a.jtnn THEN 1 ELSE 0)), a.hidden_size),
                     ReLU,
                     Linear(a.hidden_size, output_size)>>
    IN  IF a.dataset_type # "regression" THEN Append(modules, Sigmoid) ELSE modules

\* build_model(args), lines 9-42.
build_model(a) ==
    LET output_size == IF a.dataset_type = "regression_with_binning"
                       THEN a.num_bins * a.num_tasks
                       ELSE a.num_tasks
        encoder == IF a.jtnn THEN Encoder("JTNN") ELSE Encoder("MPN")
        modules == <<encoder,
                     Linear(a.hidden_size * (1 + (IF a.jtnn THEN 1 ELSE 0)), a.hidden_size),
                     ReLU,
                     Linear(a.hidden_size, output_size)>>
    IN  IF a.dataset_type = "classification" THEN Append(modules, Sigmoid) ELSE modules

\* build_model is not called.
NoBuildArgs ==
    [dataset_type |-> "none", jtnn |-> FALSE, num_tasks |-> 1, num_bins |-> 1,
     hidden_size |-> 1]
BuildIdle ==
    /\ build_args = NoBuildArgs
    /\ built_model = <<>>

\* model = build_model(args)
BuildModel ==
    /\ build_args # NoBuildArgs
    /\ built_model = <<>>
    /\ built_model' = build_model(build_args)
    /\ UNCHANGED <<run_vars, neptune_installed, imported, data_args, scaling, applied,
                   features_vars, fingerprint_vars, build_args>>

----------------------------------------------------------------------------
(* The telemetry run, lines 42-46, 399-409, 437-444. *)

\* np.nanmean of the scores of the tasks; with one task, its score.
nanmean(scores) == scores[1]

\* The keys of the telemetry run under test/: test/<metric>, with
\* ensemble_<model_idx>/ in the middle when args.ensemble_size > 1, and
\* test/final_<metric>.
MemberKey(under, a, idx, metric) ==
    [under |-> under, member |-> IF a.ensemble_size > 1 THEN idx ELSE -1, metric |-> metric]
FinalKey(metric) == [under |-> "test/final", member |-> -1, metric |-> metric]

\* A telemetry run whose entries are not followed.
NoTelemetry == [kept |-> FALSE, entries |-> EmptyDict]

RECURSIVE LogMemberTest(_, _, _, _, _, _)
\* Lines 399-409 for the first n metrics: what is logged under the test key
\* of each metric is the variable mean_val_score.
LogMemberTest(r, a, idx, scores, mean_val, n) ==
    IF n = 0 THEN r
    ELSE DictSet(LogMemberTest(r, a, idx, scores, mean_val, n - 1),
                 MemberKey("test", a, idx, scores[n][1]), mean_val)

RECURSIVE LogFinal(_, _, _, _)
\* Lines 437-444 for the first n metrics: what is stored under
\* test/final_<metric> is the variable mean_val_score.
LogFinal(r, scores, mean_val, n) ==
    IF n = 0 THEN r
    ELSE DictSet(LogFinal(r, scores, mean_val, n - 1), FinalKey(scores[n][1]), mean_val)

----------------------------------------------------------------------------
(* The state before run_training is called. *)

\* The checkpoint files of a run: one outside the save directory, and either
\* an empty save directory or the files an earlier run left in it.
StartDisks ==
    {[p \in Paths |-> IF p = ExtPath \/ reused THEN OldFile(p) ELSE NoFile] :
        reused \in BOOLEAN}

\* test_data.targets(): the molecules are alternately positive and negative.
TestTargetLists == {[i \in 1..n |-> i % 2] : n \in 0..MaxTest}

\* A classification run whose three partitions are split from data, with
\* scaled features.
DefaultDataArgs ==
    [separate_val_path |-> FALSE, separate_test_path |-> FALSE,
     features_scaling |-> TRUE, atom_descriptors |-> FALSE, bond_features |-> FALSE,
     dataset_type |-> "classification"]

\* No statement of the module or of run_training has run yet.
NothingRun ==
    /\ disk = disk_at_start
    /\ pc = "start"
    /\ error = "none"
    /\ model_idx = 0
    /\ epoch = 0
    /\ model = NoWeights
    /\ best_score = Unbound
    /\ best_epoch = 0
    /\ mean_val_score = Unbound
    /\ val_scores = EmptyDict
    /\ torch_rng = NoRng
    /\ loader_rng = NoRng
    /\ empty_test_set = FALSE
    /\ sum_test_preds = <<>>
    /\ test_preds = <<>>
    /\ test_scores = EmptyDict
    /\ avg_test_preds = Exact(<<>>)
    /\ ensemble_scores = EmptyDict
    /\ scores_file = <<>>
    /\ returned = EmptyDict
    /\ last_io = <<>>
    /\ hist = <<>>
    /\ init_model = NoWeights
    /\ rng_at_init = [torch |-> NoRng, loader |-> NoRng]
    /\ member_preds = <<>>
    /\ closed = {}
    /\ imported = "no"
    /\ scalers = NoScalers
    /\ fits = <<>>
    /\ applied = {}

Init ==
    /\ args \in ArgsSpace
    /\ val_len \in {0, MaxVal}
    /\ test_targets \in TestTargetLists
    /\ disk_at_start \in StartDisks
    /\ neptune_installed \in BOOLEAN
    /\ data_args = DefaultDataArgs
    /\ NothingRun
    /\ other_run = NoOtherRun
    /\ run = NoTelemetry
    /\ descriptastorus_installed = TRUE
    /\ FeaturesIdle
    /\ BuildIdle
    /\ FingerprintIdle

\* The runs with one metric, without telemetry, that write at most MaxEnsemble
\* checkpoints (one when a member starts, at most one per epoch).
ScalingArgsSpace ==
    {a \in ArgsSpace : /\ Len(a.metrics) = 1
                       /\ ~a.neptune_logging
                       /\ a.ensemble_size * (a.epochs + 1) <= MaxEnsemble}

\* The start of the runs that differ in their partitions and their scalers.
ScalingInit ==
    /\ args \in ScalingArgsSpace
    /\ val_len \in {0, MaxVal}
    /\ test_targets \in TestTargetLists
    /\ disk_at_start \in {d \in StartDisks : d[SaveDir(0)] = NoFile}
    /\ neptune_installed \in BOOLEAN
    /\ data_args \in DataArgsSpace
    /\ NothingRun
    /\ other_run = NoOtherRun
    /\ run = NoTelemetry
    /\ descriptastorus_installed = TRUE
    /\ FeaturesIdle
    /\ BuildIdle
    /\ FingerprintIdle

\* The start of two runs with the same arguments and two metrics, whose
\* validation scores agree on the primary metric.
TwoRunsInit ==
    /\ args \in {a \in ArgsSpace : Len(a.metrics) = 2 /\ ~a.neptune_logging}
    /\ val_len = MaxVal
    /\ test_targets \in TestTargetLists
    /\ disk_at_start \in {d \in StartDisks : d[SaveDir(0)] = NoFile}
    /\ neptune_installed = TRUE
    /\ data_args = DefaultDataArgs
    /\ NothingRun
    /\ other_run = [NoOtherRun EXCEPT !.on = TRUE]
    /\ run = NoTelemetry
    /\ descriptastorus_installed = TRUE
    /\ FeaturesIdle
    /\ BuildIdle
    /\ FingerprintIdle

\* The start of the runs with telemetry, whose entries under test/ are followed.
TelemetryInit ==
    /\ args \in {a \in ArgsSpace : a.neptune_logging}
    /\ val_len = MaxVal
    /\ test_targets \in TestTargetLists
    /\ disk_at_start \in {d \in StartDisks : d[SaveDir(0)] = NoFile}
    /\ neptune_installed = TRUE
    /\ data_args = DefaultDataArgs
    /\ NothingRun
    /\ other_run = NoOtherRun
    /\ run = [NoTelemetry EXCEPT !.kept = TRUE]
    /\ descriptastorus_installed = TRUE
    /\ FeaturesIdle
    /\ BuildIdle
    /\ FingerprintIdle

\* The arguments of a run that is not started.
IdleArgs ==
    [ensemble_size |-> 1, epochs |-> 0, metrics |-> <<"accuracy">>,
     neptune_logging |-> FALSE, checkpoint_paths |-> FALSE]

\* The start of the uses of features_generators.py: run_training is not called.
FeaturesInit ==
    /\ args = IdleArgs
    /\ val_len = MaxVal
    /\ test_targets = <<>>
    /\ disk_at_start = [p \in Paths |-> IF p = ExtPath THEN OldFile(p) ELSE NoFile]
    /\ neptune_installed = TRUE
    /\ data_args = DefaultDataArgs
    /\ NothingRun
    /\ other_run = NoOtherRun
    /\ run = NoTelemetry
    /\ descriptastorus_installed \in BOOLEAN
    /\ FeaturesIdle
    /\ BuildIdle
    /\ FingerprintIdle

\* The start of a call of a Morgan generator: run_training is not called.
FingerprintInit ==
    /\ args = IdleArgs
    /\ val_len = MaxVal
    /\ test_targets = <<>>
    /\ disk_at_start = [p \in Paths |-> IF p = ExtPath THEN OldFile(p) ELSE NoFile]
    /\ neptune_installed = TRUE
    /\ data_args = DefaultDataArgs
    /\ NothingRun
    /\ other_run = NoOtherRun
    /\ run = NoTelemetry
    /\ descriptastorus_installed = TRUE
    /\ FeaturesIdle
    /\ BuildIdle
    /\ call \in Calls
    /\ features = NoFeatures
    /\ first_call = NoFirstCall

\* The start of a call of build_model: run_training is not called.
BuildInit ==
    /\ args = IdleArgs
    /\ val_len = MaxVal
    /\ test_targets = <<>>
    /\ disk_at_start = [p \in Paths |-> IF p = ExtPath THEN OldFile(p) ELSE NoFile]
    /\ neptune_installed = TRUE
    /\ data_args = DefaultDataArgs
    /\ NothingRun
    /\ other_run = NoOtherRun
    /\ run = NoTelemetry
    /\ descriptastorus_installed = TRUE
    /\ FeaturesIdle
    /\ FingerprintIdle
    /\ build_args \in BuildArgsSpace
    /\ built_model = <<>>

----------------------------------------------------------------------------
(* The import of the module, lines 1-26: "import neptune.new as neptune" is *)
(* not guarded, whatever args.neptune_logging will be.                      *)

ImportModule ==
    /\ imported = "no"
    /\ imported' = IF neptune_installed THEN "yes" ELSE "ImportError"
    /\ UNCHANGED <<run_vars, model_vars, neptune_installed, data_args, scaling, applied, features_vars,
                   fingerprint_vars>>

----------------------------------------------------------------------------
(* run_training, lines 42-256: seeding, the splits and their checks, the    *)
(* accumulator of the test predictions, the data loaders.                   *)

Setup ==
    LET inputs == FeatureScalers(data_args)
        targets == TargetScaler(data_args)
        fitted == Fitted([i \in 1..3 |-> inputs[InputScalerNames[i]]])
        normalized == UNION {NormalizeWith(data_args, fitted[i]) : i \in 1..Len(fitted)}
    IN
    /\ imported = "yes"
    /\ pc = "start"
    /\ torch_rng' = [seed |-> "pytorch_seed", pos |-> 0]
    /\ IF ValidationEmpty(val_len)
       THEN /\ error' = "ValueError"
            /\ pc' = "aborted"
            /\ scalers' = [NoScalers EXCEPT
                              !.features_scaler = inputs.features_scaler,
                              !.atom_descriptor_scaler = inputs.atom_descriptor_scaler,
                              !.bond_feature_scaler = inputs.bond_feature_scaler]
            /\ fits' = fitted
            /\ applied' = normalized
            /\ UNCHANGED <<empty_test_set, sum_test_preds, loader_rng>>
       ELSE /\ empty_test_set' = TestEmpty(test_targets)
            /\ scalers' = [scaler |-> targets,
                           features_scaler |-> inputs.features_scaler,
                           atom_descriptor_scaler |-> inputs.atom_descriptor_scaler,
                           bond_feature_scaler |-> inputs.bond_feature_scaler]
            /\ fits' = fitted \o Fitted(<<targets>>)
            /\ applied' = normalized \cup
                  (IF targets = NoScaler THEN {}
                   ELSE {[to |-> targets.fit_on, scaler |-> targets, at |-> "normalize_targets"]})
            /\ sum_test_preds' = zeros(Len(test_targets))
            /\ loader_rng' = [seed |-> "seed", pos |-> 0]
            /\ pc' = "member"
            /\ UNCHANGED error
    /\ UNCHANGED <<outside, run, other_run, args, val_len, test_targets, disk_at_start, disk, model_idx, epoch,
                   model, best_score, best_epoch, mean_val_score, val_scores,
                   test_preds, test_scores, avg_test_preds, ensemble_scores,
                   scores_file, returned, last_io, hist, init_model, rng_at_init,
                   member_preds, closed>>

----------------------------------------------------------------------------
(* One ensemble member, lines 261-416. *)

\* The files args.checkpoint_paths names: files that exist when the arguments
\* are read, here the one outside the save directory and the one of member 0.
CheckpointPathChoices == {p \in {ExtPath, SaveDir(0)} : disk_at_start[p] # NoFile}

\* Lines 263-307, without args.checkpoint_frzn: the directory, the model
\* (loaded or built), the first checkpoint, best_score and best_epoch.
InitMemberFrom(path) ==
    LET torch == GeneratorOfMember(torch_rng, model_idx)
        loader == GeneratorOfMember(loader_rng, model_idx)
        built == MoleculeModel(torch)
        start == IF args.checkpoint_paths THEN load_checkpoint(disk, path) ELSE built
        dir == SaveDir(model_idx)
    IN  /\ pc = "member"
        /\ model_idx < args.ensemble_size
        /\ model' = start
        /\ torch_rng' = IF args.checkpoint_paths THEN torch ELSE Draw(torch)
        /\ loader_rng' = loader
        /\ disk' = save_checkpoint(disk, dir, model_idx,
                                    Bundle(start, scalers, TrainArgs(args, data_args)))
        /\ last_io' = (IF args.checkpoint_paths
                       THEN <<[m |-> model_idx, op |-> "load", path |-> path]>>
                       ELSE <<>>)
                      \o <<[m |-> model_idx, op |-> "save", path |-> dir]>>
        /\ best_score' = InitialBest(args)
        /\ best_epoch' = 0
        /\ other_run' = IF other_run.on
                        THEN [NoOtherRun EXCEPT !.on = TRUE, !.best_score = InitialBest(args)]
                        ELSE other_run
        /\ epoch' = 0
        /\ hist' = <<>>
        /\ init_model' = start
        /\ rng_at_init' = [torch |-> torch, loader |-> loader]
        /\ pc' = "epoch"
        /\ UNCHANGED <<outside, run, scaling, applied, args, val_len, test_targets, disk_at_start, error, model_idx,
                       mean_val_score, val_scores, empty_test_set,
                       sum_test_preds, test_preds, test_scores, avg_test_preds,
                       ensemble_scores, scores_file, returned, member_preds, closed>>

InitMember ==
    IF args.checkpoint_paths
    THEN \E path \in CheckpointPathChoices : InitMemberFrom(path)
    ELSE InitMemberFrom(ExtPath)

\* Lines 308-334: one pass of train() over the training batches, which the
\* loader (shuffle=True) orders with one draw from its generator.
TrainEpoch ==
    /\ pc = "epoch"
    /\ epoch < args.epochs
    /\ model' = train(model)
    /\ loader_rng' = Draw(loader_rng)
    /\ pc' = "trained"
    /\ UNCHANGED <<outside, run, other_run, scaling, applied, args, val_len, test_targets, disk_at_start, disk, error, model_idx,
                   epoch, torch_rng, best_score, best_epoch, mean_val_score, val_scores,
                   empty_test_set, sum_test_preds, test_preds, test_scores,
                   avg_test_preds, ensemble_scores, scores_file, returned, last_io,
                   hist, init_model, rng_at_init, member_preds, closed>>

\* Lines 335-362: evaluate() on the validation set and the loop that logs the
\* aggregate of each metric; it leaves the aggregate of the last metric in
\* mean_val_score.
Validate ==
    /\ pc = "trained"
    /\ \E scores \in ValScoreDicts(args) :
          /\ val_scores' = scores
          /\ mean_val_score' = multitask_mean(scores[Len(scores)][2])
          /\ IF other_run.on
             THEN \E others \in AgreeOnPrimary(args, scores) :
                      other_run' = [other_run EXCEPT !.val_scores = others,
                                                     !.differed = (others # scores)]
             ELSE other_run' = other_run
    /\ UNCHANGED run
    /\ applied' = applied \cup {[to |-> Partitions(data_args).val, scaler |-> scalers.scaler,
                                 at |-> "evaluate"]}
    /\ pc' = "validated"
    /\ UNCHANGED <<outside, scaling, args, val_len, test_targets, disk_at_start, disk, error, model_idx,
                   epoch, model, best_score, best_epoch, torch_rng, loader_rng,
                   empty_test_set, sum_test_preds, test_preds, test_scores,
                   avg_test_preds, ensemble_scores, scores_file, returned, last_io,
                   hist, init_model, rng_at_init, member_preds, closed>>

\* Lines 364-370: the aggregate of the primary metric and the checkpoint it earns.
\* val_scores is not read again before evaluate() replaces it: it is dropped here.
CheckpointIfBetter ==
    LET score == DecisionScore(args, val_scores)
        other_score == DecisionScore(args, other_run.val_scores)
        dir == SaveDir(model_idx)
    IN  /\ pc = "validated"
        /\ mean_val_score' = score
        /\ other_run' =
               IF ~other_run.on THEN other_run
               ELSE IF Improved(args, other_score, other_run.best_score)
               THEN [other_run EXCEPT !.best_score = other_score, !.best_epoch = epoch,
                                      !.saved = TRUE, !.val_scores = EmptyDict]
               ELSE [other_run EXCEPT !.saved = FALSE, !.val_scores = EmptyDict]
        /\ IF Improved(args, score, best_score)
           THEN /\ best_score' = score
                /\ best_epoch' = epoch
                /\ disk' = save_checkpoint(disk, dir, model_idx,
                                            Bundle(model, scalers, TrainArgs(args, data_args)))
                /\ last_io' = <<[m |-> model_idx, op |-> "save", path |-> dir]>>
           ELSE /\ UNCHANGED <<best_score, best_epoch, disk>>
                /\ last_io' = <<>>
        /\ hist' = Append(hist, score)
        /\ val_scores' = EmptyDict
        /\ epoch' = epoch + 1
        /\ pc' = "epoch"
        /\ UNCHANGED <<outside, run, scaling, applied, args, val_len, test_targets, disk_at_start, error, model_idx,
                       model, torch_rng, loader_rng, empty_test_set,
                       sum_test_preds, test_preds, test_scores, avg_test_preds,
                       ensemble_scores, scores_file, returned, init_model,
                       rng_at_init, member_preds, closed>>

\* Lines 372-374: the model is replaced by the one in the checkpoint file.
LoadBestCheckpoint ==
    LET dir == SaveDir(model_idx)
    IN  /\ pc = "epoch"
        /\ epoch >= args.epochs
        /\ model' = load_checkpoint(disk, dir)
        /\ last_io' = <<[m |-> model_idx, op |-> "load_best", path |-> dir]>>
        /\ pc' = "loaded"
        /\ UNCHANGED <<outside, run, other_run, scaling, applied, args, val_len, test_targets, disk_at_start, disk, error,
                       model_idx, epoch, best_score, best_epoch, mean_val_score,
                       val_scores, torch_rng, loader_rng, empty_test_set,
                       sum_test_preds, test_preds, test_scores, avg_test_preds,
                       ensemble_scores, scores_file, returned, hist, init_model,
                       rng_at_init, member_preds, closed>>

\* Lines 379-383: predict() with the loaded model on the test set.
Predict ==
    /\ pc = "loaded"
    /\ ~empty_test_set
    /\ test_preds' \in [1..Len(test_targets) -> PredVals]
    /\ applied' = applied \cup {[to |-> Partitions(data_args).test, scaler |-> scalers.scaler,
                                 at |-> "predict"]}
    /\ pc' = "predicted"
    /\ UNCHANGED <<outside, run, other_run, scaling, args, val_len, test_targets, disk_at_start, disk, error, model_idx,
                   epoch, model, best_score, best_epoch, mean_val_score, val_scores,
                   torch_rng, loader_rng, empty_test_set, sum_test_preds, test_scores,
                   avg_test_preds, ensemble_scores, scores_file, returned, last_io,
                   hist, init_model, rng_at_init, member_preds, closed>>

\* run[...].log(mean_val_score) and run[...] = mean_val_score: with telemetry
\* on, the read of a local variable that no epoch has assigned raises.
ReadsUnbound(a, score) == a.neptune_logging /\ score = Unbound

\* Lines 384-415: the scores of the member, the sum of the predictions, the
\* loop that logs each metric.
Evaluate ==
    /\ pc = "predicted"
    /\ test_scores' = evaluate_predictions(Exact(test_preds), test_targets, args)
    /\ sum_test_preds' = IF Len(test_preds) # 0
                         THEN Accumulate(sum_test_preds, test_preds)
                         ELSE sum_test_preds
    /\ member_preds' = Append(member_preds, test_preds)
    /\ IF ReadsUnbound(args, mean_val_score)
       THEN error' = "UnboundLocalError" /\ pc' = "aborted" /\ UNCHANGED run
       ELSE /\ pc' = "evaluated"
            /\ run' = IF args.neptune_logging /\ run.kept
                      THEN [run EXCEPT !.entries =
                               LogMemberTest(run.entries, args, model_idx, test_scores',
                                             mean_val_score, Len(test_scores'))]
                      ELSE run
            /\ UNCHANGED error
    /\ UNCHANGED <<outside, other_run, scaling, applied, args, val_len, test_targets, disk_at_start, disk, model_idx, epoch,
                   model, best_score, best_epoch, mean_val_score, val_scores,
                   torch_rng, loader_rng, empty_test_set, test_preds, avg_test_preds,
                   ensemble_scores, scores_file, returned, last_io, hist, init_model,
                   rng_at_init, closed>>

\* Line 416: writer.close(), after the evaluation or, with an empty test set,
\* right after the reload; the ensemble loop moves on.
CloseWriter ==
    /\ \/ pc = "evaluated"
       \/ pc = "loaded" /\ empty_test_set
    /\ closed' = closed \cup {model_idx}
    /\ model_idx' = model_idx + 1
    /\ pc' = "member"
    /\ UNCHANGED <<outside, run, other_run, scaling, applied, args, val_len, test_targets, disk_at_start, disk, error, epoch,
                   model, best_score, best_epoch, mean_val_score, val_scores,
                   torch_rng, loader_rng, empty_test_set, sum_test_preds, test_preds,
                   test_scores, avg_test_preds, ensemble_scores, scores_file, returned,
                   last_io, hist, init_model, rng_at_init, member_preds>>

----------------------------------------------------------------------------
(* After the ensemble loop, lines 418-468. *)

\* Lines 418-449: the scores of the ensemble and the loop that logs each metric.
EvaluateEnsemble ==
    /\ pc = "member"
    /\ model_idx >= args.ensemble_size
    /\ IF empty_test_set
       THEN /\ ensemble_scores' = NanScores(args)
            /\ UNCHANGED avg_test_preds
       ELSE /\ avg_test_preds' = Average(sum_test_preds, args)
            /\ ensemble_scores' = evaluate_predictions(avg_test_preds', test_targets, args)
    /\ IF ReadsUnbound(args, mean_val_score)
       THEN error' = "UnboundLocalError" /\ pc' = "aborted" /\ UNCHANGED run
       ELSE /\ pc' = "scored"
            /\ run' = IF args.neptune_logging /\ run.kept
                      THEN [run EXCEPT !.entries =
                               LogFinal(run.entries, ensemble_scores', mean_val_score,
                                        Len(ensemble_scores'))]
                      ELSE run
            /\ UNCHANGED error
    /\ UNCHANGED <<outside, other_run, scaling, applied, args, val_len, test_targets, disk_at_start, disk, model_idx, epoch,
                   model, best_score, best_epoch, mean_val_score, val_scores,
                   torch_rng, loader_rng, empty_test_set, sum_test_preds, test_preds,
                   test_scores, scores_file, returned, last_io, hist, init_model,
                   rng_at_init, member_preds, closed>>

\* Lines 451-453: test_scores.json.
SaveScores ==
    /\ pc = "scored"
    /\ scores_file' = Append(scores_file, json_dump(ensemble_scores))
    /\ pc' = "saved"
    /\ UNCHANGED <<outside, run, other_run, scaling, applied, args, val_len, test_targets, disk_at_start, disk, error, model_idx,
                   epoch, model, best_score, best_epoch, mean_val_score, val_scores,
                   torch_rng, loader_rng, empty_test_set, sum_test_preds, test_preds,
                   test_scores, avg_test_preds, ensemble_scores, returned, last_io,
                   hist, init_model, rng_at_init, member_preds, closed>>

\* Lines 455-468: the optional predictions file, the end of the telemetry run,
\* the return.
Return ==
    /\ pc = "saved"
    /\ returned' = ensemble_scores
    /\ pc' = "done"
    /\ UNCHANGED <<outside, run, other_run, scaling, applied, args, val_len, test_targets, disk_at_start, disk, error, model_idx,
                   epoch, model, best_score, best_epoch, mean_val_score, val_scores,
                   torch_rng, loader_rng, empty_test_set, sum_test_preds, test_preds,
                   test_scores, avg_test_preds, ensemble_scores, scores_file, last_io,
                   hist, init_model, rng_at_init, member_preds, closed>>

----------------------------------------------------------------------------

Next ==
    \/ ImportModule
    \/ Setup
    \/ InitMember
    \/ TrainEpoch
    \/ Validate
    \/ CheckpointIfBetter
    \/ LoadBestCheckpoint
    \/ Predict
    \/ Evaluate
    \/ CloseWriter
    \/ EvaluateEnsemble
    \/ SaveScores
    \/ Return

Spec == Init /\ [][Next]_vars

\* run_training with every choice of partitions and scalers.
ScalingSpec == ScalingInit /\ [][Next]_vars

\* run_training, and beside it a second run that differs in the validation
\* scores of the metrics that are not the primary one.
TwoRunsSpec == TwoRunsInit /\ [][Next]_vars

\* run_training with telemetry.
TelemetrySpec == TelemetryInit /\ [][Next]_vars

\* The calls of build_model.
BuildNext == BuildModel

BuildSpec == BuildInit /\ [][BuildNext]_vars

\* The calls of the functions of features_generators.py.
FeaturesNext ==
    \/ ImportFeatures
    \/ \E name \in RegisterNames, f \in UserGenerators : Register(name, f)
    \/ \E name \in Names : Get(name)
    \/ ListAvailable
    \/ Invoke

FeaturesSpec == FeaturesInit /\ [][FeaturesNext]_vars

\* The calls of the registry functions, and a caller that changes a list it
\* was handed.
FrameNext ==
    \/ FeaturesNext
    \/ MutateList

FrameSpec == FeaturesInit /\ [][FrameNext]_vars

\* The calls of the two Morgan generators.
FingerprintNext ==
    \/ CallMorganBinary
    \/ CallMorganCounts

FingerprintSpec == FingerprintInit /\ [][FingerprintNext]_vars

\* Calls of the Morgan generators between calls of the registry functions.
GeneratorsNext ==
    \/ ImportFeatures
    \/ \E f \in UserGenerators : Register("morgan", f)
    \/ Get("morgan")
    \/ ListAvailable
    \/ Invoke
    \/ \E c \in SingleCalls : CallGenerator(c)

GeneratorsSpec == FeaturesInit /\ [][GeneratorsNext]_vars

\* The single thread of run_training runs until it returns or raises.
FairSpec == Spec /\ WF_vars(Next)

----------------------------------------------------------------------------
(* Vocabulary of the properties. *)

\* a is strictly better than b in the configured direction (comparisons with
\* not-a-number are false).
StrictlyBetter(a, b) ==
    /\ a.k # "nan"
    /\ b.k # "nan"
    /\ LET lo == IF PrimaryMetric(args) = "mse" THEN a ELSE b
           hi == IF PrimaryMetric(args) = "mse" THEN b ELSE a
       IN  \/ lo.k = "num" /\ hi.k = "num" /\ lo.v < hi.v
           \/ lo.k = "inf" /\ lo.v = -1 /\ ~(hi.k = "inf" /\ hi.v = -1)
           \/ hi.k = "inf" /\ hi.v = 1 /\ ~(lo.k = "inf" /\ lo.v = 1)

\* The worst value of the configured direction.
WorstScore == IF PrimaryMetric(args) = "mse" THEN [k |-> "inf", v |-> 1]
              ELSE [k |-> "inf", v |-> -1]

\* The weights the current member has after its epoch e (the first epoch is 1).
WeightsAfterEpoch(e) == [init_model EXCEPT !.ep = init_model.ep + e]

\* The checkpoint file of the current member.
MemberFile == disk[[kind |-> "member", i |-> model_idx]]

\* The epoch loop of the current member has ended.
LoopEnded == (pc = "epoch" /\ epoch = args.epochs) \/ pc = "loaded"

\* The epochs of the current member whose aggregate beats the worst value.
Candidates == {e \in 1..Len(hist) : StrictlyBetter(hist[e], WorstScore)}

\* e is the first of the epochs no candidate beats.
FirstBest(e) ==
    /\ e \in Candidates
    /\ \A f \in Candidates : ~StrictlyBetter(hist[f], hist[e])
    /\ \A f \in Candidates : f < e => StrictlyBetter(hist[e], hist[f])

----------------------------------------------------------------------------
(* C1. *)

\* C1 as stated, for budgets of at least one epoch: when the epoch loop of a
\* member has ended, its checkpoint file holds the weights of an epoch that no
\* other epoch of the member beats.
C1_FileHoldsBestEpoch ==
    (LoopEnded /\ args.epochs >= 1) =>
        \E e \in 1..Len(hist) :
            /\ MemberFile.state = WeightsAfterEpoch(e)
            /\ \A f \in 1..Len(hist) : ~StrictlyBetter(hist[f], hist[e])

\* C1 amended: when the epoch loop of a member has ended, its checkpoint file
\* holds the weights of the first best epoch among the epochs whose aggregate
\* is strictly better than the value best_score starts from; when there is no
\* such epoch (no epoch at all, or only undefined or worst-infinity aggregates)
\* it holds the weights the member started from.
C1_FileHoldsFirstBestOrInitial ==
    LoopEnded =>
        IF Candidates = {}
        THEN MemberFile.state = init_model
        ELSE \E e \in Candidates : FirstBest(e) /\ MemberFile.state = WeightsAfterEpoch(e)

\* The file holds the weights of the first of two epochs, the better one.
C1_Witness ==
    /\ LoopEnded
    /\ Len(hist) = 2
    /\ StrictlyBetter(hist[1], hist[2])
    /\ MemberFile.state = WeightsAfterEpoch(1)

----------------------------------------------------------------------------
(* C2. *)

\* The aggregate of the primary metric in the result of evaluate().
PrimaryAggregate ==
    val_scores[CHOOSE i \in 1..Len(val_scores) : val_scores[i][1] = args.metrics[1]][2][1]

\* C2: the checkpoint decision writes the file of the member, with the current
\* weights, exactly when the aggregate of the primary metric is strictly better
\* than best_score in the direction of the run, and then records the aggregate
\* and the epoch; otherwise (a tie included) the files, best_score and
\* best_epoch stay as they are. The direction never changes, and best_epoch is
\* the first epoch that reached best_score.
C2_StrictImprovementOnly ==
    [][/\ args' = args
       /\ pc = "validated" =>
            IF StrictlyBetter(PrimaryAggregate, best_score)
            THEN /\ disk'[[kind |-> "member", i |-> model_idx]].state = model
                 /\ disk'[[kind |-> "member", i |-> model_idx]].by = model_idx
                 /\ \A p \in Paths \ {[kind |-> "member", i |-> model_idx]} :
                        disk'[p] = disk[p]
                 /\ best_score' = PrimaryAggregate
                 /\ best_epoch' = epoch
            ELSE /\ disk' = disk
                 /\ best_score' = best_score
                 /\ best_epoch' = best_epoch
       /\ (pc' = "epoch" /\ Candidates' # {}) =>
            /\ hist'[best_epoch' + 1] = best_score'
            /\ \A e \in 1..best_epoch' : hist'[e] # best_score'
      ]_vars

\* The second epoch ties with the first: nothing is written and the first is kept.
C2_Witness ==
    /\ pc = "epoch"
    /\ Len(hist) = 2
    /\ hist[1].k = "num"
    /\ hist[2] = hist[1]
    /\ best_epoch = 0
    /\ best_score = hist[1]
    /\ last_io = <<>>
    /\ MemberFile.state = WeightsAfterEpoch(1)

----------------------------------------------------------------------------
(* C3. *)

\* Every value an aggregate can take.
AnyScore == {[k |-> "num", v |-> n] : n \in 1..MaxScore}
            \cup {[k |-> "nan", v |-> 0], [k |-> "inf", v |-> 1], [k |-> "inf", v |-> -1]}

\* The validation aggregate of the current weights, s0 being the aggregate
\* of the weights the member started from (no epoch measures it).
ScoreOfModel(s0) == IF model = init_model THEN s0 ELSE hist[model.ep - init_model.ep]

\* C3: the model reloaded after the epoch loop is never worse than an epoch
\* of the member: no epoch has an aggregate strictly better, in the direction
\* of the run, than the aggregate of the reloaded model, whatever the budget
\* and the aggregates (undefined ones included).
C3_ReloadedNeverWorse ==
    pc = "loaded" =>
        /\ model = init_model \/ model \in {WeightsAfterEpoch(e) : e \in 1..Len(hist)}
        /\ \A s0 \in AnyScore : \A e \in 1..Len(hist) :
              ~StrictlyBetter(hist[e], ScoreOfModel(s0))

\* The reloaded model is the one of the first epoch; the second epoch had an
\* undefined aggregate.
C3_Witness ==
    /\ pc = "loaded"
    /\ Len(hist) = 2
    /\ hist[1].k = "num"
    /\ hist[2].k = "nan"
    /\ model = WeightsAfterEpoch(1)

----------------------------------------------------------------------------
(* C4. *)

\* The positions of run_training inside one ensemble member.
MemberPhases == {"epoch", "trained", "validated", "loaded", "predicted", "evaluated"}

\* The order of the states of a member: Initialized and the head of the epoch
\* loop are "epoch"; leaving "evaluated" or, with an empty test set, "loaded"
\* for "member" is Closed.
MemberEdges ==
    {<<"epoch", "trained">>, <<"trained", "validated">>, <<"validated", "epoch">>,
     <<"epoch", "loaded">>, <<"loaded", "predicted">>, <<"predicted", "evaluated">>,
     <<"evaluated", "member">>, <<"loaded", "member">>}

\* C4: a member moves through its states only in the order Initialized,
\* (TrainEpoch, Validate, CheckpointIfBetter)*, LoadBestCheckpoint, Predict,
\* Evaluate, Closed: training starts only within the budget, the checkpoint is
\* reloaded only after the last epoch, prediction uses the reloaded model, and
\* the member is left only by closing it.
C4_MemberStateMachine ==
    [][(pc' # pc /\ pc \in MemberPhases) =>
          /\ <<pc, pc'>> \in MemberEdges
          /\ pc' = "trained" => epoch < args.epochs
          /\ pc' = "loaded" => epoch = args.epochs
          /\ pc' = "predicted" => model = MemberFile.state
          /\ (pc = "loaded" /\ pc' = "member") => Len(test_targets) = 0
          /\ pc' = "member" => model_idx \in closed'
      ]_vars

----------------------------------------------------------------------------
(* C5. *)

\* C5: with an empty validation set run_training raises the ValueError of the
\* split check and nothing else happens: no member is initialized, no model is
\* built or loaded, no checkpoint file is written, no epoch is trained, no
\* scores file is written.
C5_EmptyValidationAborts ==
    val_len = 0 =>
        /\ pc \in {"start", "aborted"}
        /\ pc = "aborted" => error = "ValueError"
        /\ disk = disk_at_start
        /\ model = [seed |-> "none", pos |-> 0, ep |-> 0]
        /\ init_model = model
        /\ model_idx = 0
        /\ epoch = 0
        /\ hist = <<>>
        /\ last_io = <<>>
        /\ torch_rng.pos = 0
        /\ closed = {}
        /\ scores_file = <<>>
        /\ returned = <<>>

\* The run with an empty validation set has raised.
C5_Witness == val_len = 0 /\ pc = "aborted" /\ error = "ValueError"

----------------------------------------------------------------------------
(* C6. *)

\* Every score of every metric of args.metrics is not-a-number.
AllNaN(scores) ==
    /\ Len(scores) = Len(args.metrics)
    /\ \A i \in 1..Len(scores) :
          /\ scores[i][1] = args.metrics[i]
          /\ Len(scores[i][2]) = Len(task_names)
          /\ \A t \in 1..Len(scores[i][2]) : scores[i][2][t].k = "nan"

\* C6: with an empty test set and a validation set that is not empty,
\* run_training never raises, predicts and evaluates for no member, and when
\* it has returned every member is closed and the returned scores and the
\* scores file hold not-a-number for every metric and every task.
C6_EmptyTestCompletes ==
    (Len(test_targets) = 0 /\ val_len > 0) =>
        /\ error = "none"
        /\ pc \notin {"aborted", "predicted", "evaluated"}
        /\ member_preds = <<>>
        /\ pc = "done" =>
              /\ closed = 0..(args.ensemble_size - 1)
              /\ AllNaN(returned)
              /\ Len(scores_file) = 1
              /\ \A i \in 1..Len(scores_file[1]) :
                    \A t \in 1..Len(scores_file[1][i][2]) : scores_file[1][i][2][t].k = "nan"

----------------------------------------------------------------------------
(* C7. *)

RECURSIVE SumOfMembers(_, _)
\* The sum over the first n members of their prediction for molecule i.
SumOfMembers(i, n) == IF n = 0 THEN 0 ELSE member_preds[n][i] + SumOfMembers(i, n - 1)

\* The number of molecules one member predicts right, on its own predictions.
MemberHits(n) ==
    Cardinality({i \in 1..Len(test_targets) :
                    (2 * member_preds[n][i] > 1) = (test_targets[i] = 1)})

RECURSIVE SumOfMemberHits(_)
SumOfMemberHits(n) == IF n = 0 THEN 0 ELSE MemberHits(n) + SumOfMemberHits(n - 1)

\* The ensemble has been evaluated.
EnsembleEvaluated == pc \in {"scored", "saved", "done"}

\* C7: with a test set that is not empty, the predictions the ensemble is
\* scored on are, molecule by molecule, the sum of the predictions of all the
\* members divided by the ensemble size, and the scores of the ensemble are
\* the evaluator applied to them.
C7_EnsembleScoresOfMeanPredictions ==
    (EnsembleEvaluated /\ Len(test_targets) > 0) =>
        /\ Len(member_preds) = args.ensemble_size
        /\ avg_test_preds.den = args.ensemble_size
        /\ Len(avg_test_preds.num) = Len(test_targets)
        /\ \A i \in 1..Len(test_targets) :
              avg_test_preds.num[i] = SumOfMembers(i, args.ensemble_size)
        /\ ensemble_scores = evaluate_predictions(avg_test_preds, test_targets, args)

\* Two members, one right and one wrong on the one molecule: the accuracy of the
\* mean prediction is not the mean of the two accuracies.
C7_Witness ==
    /\ pc = "done"
    /\ args.ensemble_size = 2
    /\ Len(test_targets) > 0
    /\ args.metrics[1] = "accuracy"
    /\ returned[1][2][1].k = "num"
    /\ args.ensemble_size * returned[1][2][1].v # SumOfMemberHits(args.ensemble_size)

----------------------------------------------------------------------------
(* C8. *)

\* The directory of member idx.
DirOf(idx) == [kind |-> "member", i |-> idx]

\* Members run one after another: a member starts only when all the members
\* before it are closed, and the loop moves from a member to the next one
\* only by closing it.
OneAfterAnother ==
    /\ (pc = "member" /\ pc' = "epoch") => \A j \in 0..(model_idx - 1) : j \in closed
    /\ model_idx' # model_idx => (model_idx' = model_idx + 1 /\ model_idx \in closed')

\* A file written by a member in this run is never written by another member.
NeverOverwrittenByAnother ==
    \A p \in DOMAIN disk :
        (disk[p].by >= 0 /\ disk'[p] # disk[p]) => disk'[p].by = disk[p].by

\* C8 as stated: members run one after another, and every checkpoint operation
\* of a member on a member directory, reads included, is on its own directory.
C8_OwnDirectoryOnly ==
    [][/\ OneAfterAnother
       /\ NeverOverwrittenByAnother
       /\ \A i \in 1..Len(last_io') :
             last_io'[i].path.kind = "member" => last_io'[i].path = DirOf(last_io'[i].m)
      ]_vars

\* C8 amended: members run one after another; a member writes checkpoints only
\* into its own directory, reloads its best checkpoint only from its own
\* directory, where it finds a file it wrote itself, and no file written by a
\* member is written by another. (The model a member starts from, when
\* args.checkpoint_paths is set, is read from whatever file the arguments name.)
C8_OwnDirectoryForSaveAndReload ==
    [][/\ OneAfterAnother
       /\ NeverOverwrittenByAnother
       /\ \A p \in DOMAIN disk : disk'[p] # disk[p] => p = DirOf(model_idx)
       /\ last_io' # last_io => \A i \in 1..Len(last_io') : last_io'[i].m = model_idx
       /\ \A i \in 1..Len(last_io') :
             last_io'[i].op \in {"save", "load_best"} =>
                 last_io'[i].path = DirOf(last_io'[i].m)
       /\ (pc = "epoch" /\ pc' = "loaded") =>
             /\ disk[DirOf(model_idx)].by = model_idx
             /\ model' = disk[DirOf(model_idx)].state
      ]_vars

\* The second member has reloaded its own file while the file of the first
\* member is still the one the first member wrote.
C8_Witness ==
    /\ pc = "loaded"
    /\ model_idx = 1
    /\ disk[DirOf(0)].by = 0
    /\ disk[DirOf(1)].by = 1
    /\ 0 \in closed

----------------------------------------------------------------------------
(* C9. *)

\* C9 as stated: the generators a member draws its initial weights and its
\* batch orders from are in the state its own seed puts them in, whatever the
\* members before it drew.
C9_OwnSeedPerMember ==
    pc \in MemberPhases =>
        /\ rng_at_init.torch.pos = 0
        /\ rng_at_init.loader.pos = 0

\* C9 amended: there is one seed for the initial weights (args.pytorch_seed,
\* set once before the ensemble loop) and one for the batch orders (args.seed,
\* given once to the one training loader): member k draws from the generators
\* as the members before it left them, that is after one draw per model built
\* and one draw per epoch trained before it.
C9_SharedGenerators ==
    pc \in MemberPhases =>
        /\ rng_at_init.torch.seed = "pytorch_seed"
        /\ rng_at_init.torch.pos = (IF args.checkpoint_paths THEN 0 ELSE model_idx)
        /\ rng_at_init.loader.seed = "seed"
        /\ rng_at_init.loader.pos = model_idx * args.epochs

\* The second member starts after the first one built a model and trained two epochs.
C9_Witness ==
    /\ pc = "epoch"
    /\ model_idx = 1
    /\ rng_at_init.torch.pos = 1
    /\ rng_at_init.loader.pos = 2

----------------------------------------------------------------------------
(* C10. *)

\* The members of a file, as a set of <<key, value>>.
Members(d) == {d[i] : i \in 1..Len(d)}

\* C10: test_scores.json is written at most once, only after every member is
\* closed and the ensemble is evaluated; what is written is the mapping
\* run_training returns, its keys in ascending order; a run that has returned
\* has written it, a run that has raised has not.
C10_ScoresFileOnceSorted ==
    /\ Len(scores_file) <= 1
    /\ Len(scores_file) = 1 =>
          /\ pc \in {"saved", "done"}
          /\ closed = 0..(args.ensemble_size - 1)
          /\ Members(scores_file[1]) = Members(ensemble_scores)
          /\ Len(scores_file[1]) = Len(args.metrics)
          /\ \A i, j \in 1..Len(scores_file[1]) :
                i < j => MetricRank(scores_file[1][i][1]) < MetricRank(scores_file[1][j][1])
    /\ pc = "done" =>
          /\ Len(scores_file) = 1
          /\ returned = ensemble_scores
          /\ Members(scores_file[1]) = Members(returned)
    /\ pc = "aborted" => scores_file = <<>>

\* The file lists "accuracy" before "mse" although the returned dict has "mse" first.
C10_Witness ==
    /\ pc = "done"
    /\ Len(returned) = 2
    /\ returned[1][1] = "mse"
    /\ scores_file[1][1][1] = "accuracy"
    /\ scores_file[1][1][2] = returned[2][2]

----------------------------------------------------------------------------
(* C11. *)

\* C11: telemetry never makes the program fail: the module is imported whether
\* or not the telemetry package is installed, and the only error that ends
\* run_training is the ValueError of an empty validation set, so that every
\* other run goes on to write the scores file.
C11_TelemetryNeverFails ==
    /\ imported # "ImportError"
    /\ pc = "aborted" => (error = "ValueError" /\ val_len = 0)

----------------------------------------------------------------------------
(* C12. *)

\* The uses of scalers on the validation and the test partition.
UsesOnValOrTest ==
    {u \in applied : u.to \in {Partitions(data_args).val, Partitions(data_args).test}}

\* C12: every scaler is fitted on the training partition and on nothing else,
\* no kind of scaler is fitted twice, the scalers used on the validation and
\* the test partition are the fitted ones held by the local variables, and
\* once the partitions are normalized each fitted scaler of the inputs has
\* been used on both of them.
C12_ScalersFittedOnTrainingOnly ==
    LET parts == Partitions(data_args)
    IN  /\ \A i \in 1..Len(fits) :
              /\ fits[i].fit_on = parts.train
              /\ fits[i].fit_on \notin {parts.val, parts.test}
              /\ \A j \in 1..Len(fits) : i # j => fits[i].what # fits[j].what
        /\ \A u \in UsesOnValOrTest :
              \/ u.scaler = NoScaler
              \/ /\ \E i \in 1..Len(fits) : fits[i] = u.scaler
                 /\ \E n \in DOMAIN scalers : scalers[n] = u.scaler
        /\ \A u \in applied :
              u.at \in {"evaluate", "predict"} => u.scaler = scalers.scaler
        /\ pc # "start" =>
              \A i \in 1..3 :
                  LET sc == scalers[InputScalerNames[i]]
                  IN  /\ sc = FeatureScalers(data_args)[InputScalerNames[i]]
                      /\ sc # NoScaler =>
                            \A d \in {parts.val, parts.test} :
                                [to |-> d, scaler |-> sc, at |-> "normalize_features"]
                                    \in applied
        /\ pc \notin {"start", "aborted"} =>
              (scalers.scaler # NoScaler) = (data_args.dataset_type = "regression")

\* A regression run with separate validation and test files and all four
\* scalers has predicted on the test partition.
C12_Witness ==
    /\ pc = "done"
    /\ data_args.separate_val_path /\ data_args.separate_test_path
    /\ Len(fits) = 4
    /\ [to |-> "separate_test", scaler |-> StandardScaler("data", "targets"), at |-> "predict"]
          \in applied
    /\ [to |-> "separate_val", scaler |-> StandardScaler("data", "atom_descriptors"),
        at |-> "normalize_features"] \in applied

----------------------------------------------------------------------------
(* C13. *)

\* The checkpoint files written by this run.
WrittenFiles == {disk[p] : p \in {q \in Paths : disk[q].by >= 0}}

\* The scalers of kind what that were used on a dataset.
UsedScalers(what) ==
    {u.scaler : u \in {v \in applied : v.scaler # NoScaler /\ v.scaler.what = what}}

\* C13: every checkpoint file written by the run, the first one of a member
\* and each later one, holds weights together with the four scalers and the
\* arguments of the run: the scalers are those of the local variables, which
\* are the ones used on the partitions, and the arguments are args.
C13_CheckpointBundlesScalersAndArgs ==
    \A f \in WrittenFiles :
        /\ f.scalers = scalers
        /\ f.args = [run |-> args, data |-> data_args]
        /\ UsedScalers("features") \subseteq {f.scalers.features_scaler}
        /\ UsedScalers("atom_descriptors") \subseteq {f.scalers.atom_descriptor_scaler}
        /\ UsedScalers("bond_features") \subseteq {f.scalers.bond_feature_scaler}
        /\ UsedScalers("targets") \subseteq {f.scalers.scaler}
        /\ f.scalers.features_scaler # NoScaler =>
              UsedScalers("features") = {f.scalers.features_scaler}

\* A member that started from a file of an earlier run has written a
\* checkpoint after an epoch, with a target scaler and a feature scaler in it.
C13_Witness ==
    /\ args.checkpoint_paths
    /\ disk[[kind |-> "member", i |-> 0]].by = 0
    /\ disk[[kind |-> "member", i |-> 0]].state.ep >= 1
    /\ disk[[kind |-> "member", i |-> 0]].scalers.scaler = StandardScaler("split_train", "targets")
    /\ disk[[kind |-> "member", i |-> 0]].scalers.features_scaler # NoScaler
    /\ pc = "done"

----------------------------------------------------------------------------
(* C14. *)

\* run_training has returned or raised.
RunEnded == pc \in {"done", "aborted"}

\* C14: the epoch loop of a member ends after exactly args.epochs epochs,
\* whatever the validation scores were, and a run whose validation set is
\* not empty ends after exactly args.ensemble_size members were closed.
C14_FixedBudgetThenTerminates ==
    /\ pc \in {"epoch", "trained", "validated"} =>
          /\ epoch <= args.epochs
          /\ Len(hist) = epoch
    /\ pc \in {"trained", "validated"} => epoch < args.epochs
    /\ pc \in {"loaded", "predicted", "evaluated"} =>
          /\ epoch = args.epochs
          /\ Len(hist) = args.epochs
    /\ Cardinality(closed) <= args.ensemble_size
    /\ (RunEnded /\ val_len > 0) => closed = 0..(args.ensemble_size - 1)

----------------------------------------------------------------------------
(* C15. *)

\* C15: a lookup of a name returns the very function that was last registered
\* under it, whatever was registered, looked up or listed before, and the
\* decorator hands back the function it was given.
C15_GetReturnsRegisteredFunction ==
    /\ (result.op = "get" /\ latest[result.name] # [id |-> "none", mock |-> FALSE]) =>
          /\ result.generator = latest[result.name]
          /\ result.error.type = "none"
    /\ result.op = "register" => result.generator = latest[result.name]

\* "custom" was registered as g after "other" was registered, and the lookup
\* of "custom" returned g.
C15_Witness ==
    /\ result.op = "get"
    /\ result.name = "custom"
    /\ result.generator = [id |-> "g", mock |-> FALSE]
    /\ first_registered[5] = "other"
    /\ first_registered[Len(first_registered)] = "custom"

----------------------------------------------------------------------------
(* C16. *)

\* The items of the registry stored under a name.
ItemsOf(name) ==
    {i \in 1..Len(FEATURES_GENERATOR_REGISTRY) : FEATURES_GENERATOR_REGISTRY[i][1] = name}

\* C16: a registration never raises, and the registry holds each registered
\* name exactly once, with the function last registered under it: registering
\* a name again replaces its function and touches no other name; the list of
\* the names has each name once.
C16_RegisterAgainReplaces ==
    /\ result.op = "register" => result.error.type = "none"
    /\ \A n \in Names :
          IF latest[n] = [id |-> "none", mock |-> FALSE]
          THEN ItemsOf(n) = {}
          ELSE /\ Cardinality(ItemsOf(n)) = 1
               /\ \A i \in ItemsOf(n) : FEATURES_GENERATOR_REGISTRY[i][2] = latest[n]
    /\ result.op = "list" =>
          \A n \in Names :
              Cardinality({i \in 1..Len(result.names) : result.names[i] = n})
                  = IF latest[n] = [id |-> "none", mock |-> FALSE] THEN 0 ELSE 1

\* "morgan", registered by the module, was registered again as g: the lookup
\* returns g, and the other names of the module are as the module left them.
C16_Witness ==
    /\ result.op = "get"
    /\ result.name = "morgan"
    /\ result.generator = [id |-> "g", mock |-> FALSE]
    /\ Len(FEATURES_GENERATOR_REGISTRY) = 4
    /\ FEATURES_GENERATOR_REGISTRY[2][2].id = "morgan_counts_features_generator"

----------------------------------------------------------------------------
(* C17. *)

\* C17: a lookup leaves the registry as it is, and the lookup of a name that
\* is not registered raises the ValueError whose message gives the name and
\* mentions the installation of descriptastorus, and returns no function.
C17_GetUnregisteredRaises ==
    [][result'.op = "get" =>
          /\ FEATURES_GENERATOR_REGISTRY' = FEATURES_GENERATOR_REGISTRY
          /\ latest[result'.name] = [id |-> "none", mock |-> FALSE] =>
                /\ result'.error.type = "ValueError"
                /\ result'.error.names = result'.name
                /\ result'.error.mentions = "descriptastorus"
                /\ result'.generator = [id |-> "none", mock |-> FALSE]
      ]_vars

\* The lookup of "missing" has failed, in a registry a caller has added to.
C17_Witness ==
    /\ result.op = "get"
    /\ result.name = "missing"
    /\ result.error.type = "ValueError"
    /\ Len(FEATURES_GENERATOR_REGISTRY) = 5

----------------------------------------------------------------------------
(* C18. *)

\* C18: the registry keeps the names in the order of their first registration,
\* and the list get_available_features_generators returns is that sequence:
\* exactly the registered names, each once, a name registered again at the
\* place it had; without a registration in between two calls return the same.
C18_ListInOrderOfFirstRegistration ==
    /\ Len(FEATURES_GENERATOR_REGISTRY) = Len(first_registered)
    /\ \A i \in 1..Len(first_registered) :
          FEATURES_GENERATOR_REGISTRY[i][1] = first_registered[i]
    /\ result.op = "list" =>
          /\ result.names = first_registered
          /\ {result.names[i] : i \in 1..Len(result.names)}
                = {n \in Names : latest[n] # [id |-> "none", mock |-> FALSE]}
          /\ Cardinality({result.names[i] : i \in 1..Len(result.names)}) = Len(result.names)

\* "other" was registered before "custom", "morgan" was registered again, and
\* the list has "morgan" first and "other" before "custom".
C18_Witness ==
    /\ result.op = "list"
    /\ result.names = <<"morgan", "morgan_count", "rdkit_2d", "rdkit_2d_normalized",
                        "other", "custom">>
    /\ latest["morgan"] = [id |-> "f", mock |-> FALSE]

----------------------------------------------------------------------------
(* C19. *)

FourNames == {"morgan", "morgan_count", "rdkit_2d", "rdkit_2d_normalized"}

\* C19: with or without descriptastorus the imported module has registered the
\* same four names and the lookup of each succeeds; an ImportError that names
\* descriptastorus is raised only by a call of the rdkit_2d or
\* rdkit_2d_normalized function of a module imported without descriptastorus,
\* and by every such call; the import, a registration, a lookup and a listing
\* never raise it.
C19_MissingDependencyRaisesOnlyOnCall ==
    /\ features_imported =>
          FourNames \subseteq {FEATURES_GENERATOR_REGISTRY[i][1] :
                                 i \in 1..Len(FEATURES_GENERATOR_REGISTRY)}
    /\ result.op = "import" =>
          [i \in 1..Len(FEATURES_GENERATOR_REGISTRY) |-> FEATURES_GENERATOR_REGISTRY[i][1]]
              = <<"morgan", "morgan_count", "rdkit_2d", "rdkit_2d_normalized">>
    /\ (result.op = "get" /\ result.name \in FourNames) =>
          /\ result.error.type = "none"
          /\ result.generator # [id |-> "none", mock |-> FALSE]
    /\ result.error.type = "ImportError" =>
          /\ result.op = "call"
          /\ result.name \in {"rdkit_2d", "rdkit_2d_normalized"}
          /\ ~descriptastorus_installed
          /\ result.error.names = "descriptastorus"
    /\ (result.op = "call" /\ result.name \in {"rdkit_2d", "rdkit_2d_normalized"}
          /\ ~descriptastorus_installed) => result.error.type = "ImportError"

\* Without descriptastorus, the function returned for "rdkit_2d_normalized" was
\* called and raised.
C19_Witness ==
    /\ ~descriptastorus_installed
    /\ result.op = "call"
    /\ result.name = "rdkit_2d_normalized"
    /\ result.error.type = "ImportError"

----------------------------------------------------------------------------
(* C20 *)

RECURSIVE MoleculesBefore(_, _)
\* The number of molecules in the first n groups.
MoleculesBefore(groups, n) ==
    IF n = 0 THEN 0 ELSE MoleculesBefore(groups, n - 1) + Len(groups[n])

\* What the same generator returns for one molecule alone, with the radius
\* and the bit-width of the call.
SingleCall(molecule) ==
    morgan_features_generator(call.generator, Single(molecule), call.radius,
                              call.num_bits).rows[1]

\* C20: for a list of groups of molecules a Morgan generator returns as many
\* vectors as the sum of the group sizes, and the vector of the m-th molecule
\* of the g-th group stands after the vectors of the groups before g and of
\* the molecules before m, and equals what the generator returns for that
\* molecule alone with the same radius and bit-width.
C20_GroupedIsFlattenedInOrder ==
    (features.returned /\ features.list) =>
        LET groups == call.mol_data.groups IN
        /\ call.mol_data.list
        /\ Len(features.rows) = MoleculesBefore(groups, Len(groups))
        /\ \A g \in 1..Len(groups) : \A m \in 1..Len(groups[g]) :
               features.rows[MoleculesBefore(groups, g - 1) + m] = SingleCall(groups[g][m])

\* A call with two groups has returned: the first group holds a SMILES string
\* and a second molecule whose vector differs, the second group one molecule.
C20_Witness ==
    /\ features.returned
    /\ features.list
    /\ call.mol_data.groups = <<(<<Smiles("C"), Mol("N")>>), (<<Mol("C")>>)>>
    /\ SingleCall(Smiles("C")) # SingleCall(Mol("N"))
    /\ Len(features.rows) = 3

----------------------------------------------------------------------------
(* C21 *)

----------------------------------------------------------------------------
(* C22 *)

\* The entries of the import of the module, each with the function of the
\* last registration under its name, in the order of the first registrations.
RegisteredInOrder ==
    [i \in 1..Len(first_registered) |->
        <<first_registered[i], latest[first_registered[i]]>>]

\* C22: a lookup, a listing, a call of a generator and a change of a returned
\* list leave the registry as it is; a registration leaves every entry but
\* that of its name, and the order of the entries it found, as they are; and
\* the registry is always the entries of the import updated by the
\* registrations in their order.
C22_OnlyRegisterChangesTheRegistry ==
    [][/\ result'.op \in {"get", "list", "call", "mutated"} =>
            FEATURES_GENERATOR_REGISTRY' = FEATURES_GENERATOR_REGISTRY
       /\ result'.op = "register" =>
            /\ Len(FEATURES_GENERATOR_REGISTRY') >= Len(FEATURES_GENERATOR_REGISTRY)
            /\ \A i \in 1..Len(FEATURES_GENERATOR_REGISTRY) :
                  /\ FEATURES_GENERATOR_REGISTRY'[i][1] = FEATURES_GENERATOR_REGISTRY[i][1]
                  /\ FEATURES_GENERATOR_REGISTRY[i][1] # result'.name =>
                        FEATURES_GENERATOR_REGISTRY'[i] = FEATURES_GENERATOR_REGISTRY[i]
            /\ \A i \in 1..Len(FEATURES_GENERATOR_REGISTRY') :
                  i > Len(FEATURES_GENERATOR_REGISTRY) =>
                      FEATURES_GENERATOR_REGISTRY'[i][1] = result'.name
       /\ FEATURES_GENERATOR_REGISTRY' = RegisteredInOrder'
      ]_vars

\* After a registration of "custom" and one of "morgan" again, the caller
\* removed the first name of a list it was handed, and the registry still has
\* its five entries.
C22_Witness ==
    /\ result.op = "mutated"
    /\ result.names = <<"morgan_count", "rdkit_2d", "rdkit_2d_normalized", "custom">>
    /\ KeyList(FEATURES_GENERATOR_REGISTRY) =
           <<"morgan", "morgan_count", "rdkit_2d", "rdkit_2d_normalized", "custom">>
    /\ latest["morgan"] \in UserGenerators

----------------------------------------------------------------------------
(* C23 *)

\* C23: a second run whose validation scores agree with those of the run on
\* the primary metric, whatever its scores of the other metrics, has the same
\* best_score and best_epoch at every step, and writes the checkpoint at the
\* same epochs.
C23_DecisionDependsOnPrimaryOnly ==
    other_run.on =>
        /\ other_run.best_score = best_score
        /\ other_run.best_epoch = best_epoch
        /\ (pc = "epoch" /\ hist # <<>>) => (other_run.saved <=> last_io # <<>>)

\* The primary metric is accuracy and the last metric of the list is mse; in
\* the second epoch the runs differed on mse, and both wrote the checkpoint
\* of the second epoch.
C23_Witness ==
    /\ other_run.on
    /\ args.metrics = <<"accuracy", "mse">>
    /\ pc = "epoch"
    /\ Len(hist) = 2
    /\ other_run.differed
    /\ other_run.saved
    /\ best_epoch = 1
    /\ last_io # <<>>

----------------------------------------------------------------------------
(* C24 *)

\* C24: from the start of a member to its end its directory holds a
\* checkpoint this member wrote, so the reload finds one; and when no epoch of
\* the member has an aggregate strictly better than the infinity best_score
\* starts from (no epoch at all included), the model that is reloaded and
\* that predicts on the test set is the model the member started from.
C24_InitialCheckpointIsTheFallback ==
    /\ pc \in MemberPhases =>
          /\ MemberFile # NoFile
          /\ MemberFile.by = model_idx
    /\ (pc \in {"loaded", "predicted"} /\ Candidates = {}) =>
          /\ model = init_model
          /\ MemberFile.state = init_model

\* A member built its model, trained one epoch whose aggregate is undefined,
\* reloaded the model it started from and predicted with it.
C24_Witness ==
    /\ pc = "predicted"
    /\ ~args.checkpoint_paths
    /\ Len(hist) = 1
    /\ hist[1].k = "nan"
    /\ model = init_model
    /\ model.ep = 0

\* A run with no epoch reloaded the checkpoint written before the epoch loop.
C24_WitnessNoEpoch ==
    /\ pc = "loaded"
    /\ args.epochs = 0
    /\ model = init_model
    /\ MemberFile.by = model_idx

----------------------------------------------------------------------------
(* C25 *)

\* C25, the values alone: with telemetry on, after the evaluation of a member
\* the value under the test key of each metric is the average test score of the member for that
\* metric, and after the evaluation of the ensemble the value under
\* test/final_<metric> is the mean test score of the ensemble.
C25_ValuesAreTestScores ==
    (args.neptune_logging /\ run.kept) =>
        /\ pc = "evaluated" =>
              \A i \in 1..Len(test_scores) :
                  LET key == MemberKey("test", args, model_idx, test_scores[i][1])
                  IN  /\ key \in DictKeys(run.entries)
                      /\ DictGet(run.entries, key) = nanmean(test_scores[i][2])
        /\ pc \in {"scored", "saved", "done"} =>
              \A i \in 1..Len(ensemble_scores) :
                  LET key == FinalKey(ensemble_scores[i][1])
                  IN  /\ key \in DictKeys(run.entries)
                      /\ DictGet(run.entries, key) = multitask_mean(ensemble_scores[i][2])

\* C25: with telemetry on, the value under a member's test key is that
\* member's average test score for the metric and the value under
\* test/final_<metric> is the mean test score of the ensemble, and both are
\* written whatever the epoch budget: no run ends with the read of a variable
\* that was never assigned.
C25_TestKeysHoldTestScores ==
    /\ C25_ValuesAreTestScores
    /\ args.neptune_logging => error # "UnboundLocalError"

----------------------------------------------------------------------------
(* C26 *)

\* The places of the linear layers in the model.
LinearLayers == {i \in 1..Len(built_model) : built_model[i].layer = "Linear"}

\* The last linear layer.
LastLinear == built_model[CHOOSE i \in LinearLayers : \A j \in LinearLayers : j <= i]

\* C26: the last linear layer of the model build_model returns has
\* num_bins * num_tasks outputs when dataset_type is regression_with_binning
\* and num_tasks outputs otherwise; the model ends with a sigmoid, its only
\* one, exactly when dataset_type is classification; and its first module is
\* the junction-tree encoder when args.jtnn is set and the MPN encoder
\* otherwise.
C26_HeadFollowsDatasetType ==
    built_model # <<>> =>
        /\ LinearLayers # {}
        /\ LastLinear.out_features =
               IF build_args.dataset_type = "regression_with_binning"
               THEN build_args.num_bins * build_args.num_tasks
               ELSE build_args.num_tasks
        /\ (built_model[Len(built_model)] = Sigmoid)
               <=> (build_args.dataset_type = "classification")
        /\ \A i \in 1..Len(built_model) - 1 : built_model[i].layer # "Sigmoid"
        /\ built_model[1].layer = IF build_args.jtnn THEN "JTNN" ELSE "MPN"
        /\ \A i \in 2..Len(built_model) : built_model[i].layer \notin {"JTNN", "MPN"}

\* A model for regression with binning, 3 bins and 2 tasks, with the
\* junction-tree encoder: 6 outputs and no sigmoid.
C26_Witness ==
    /\ built_model # <<>>
    /\ build_args.dataset_type = "regression_with_binning"
    /\ build_args.num_bins = 3
    /\ build_args.num_tasks = 2
    /\ build_args.jtnn
    /\ LastLinear.out_features = 6
    /\ Len(built_model) = 4


============================================================================
